---------------------------- MODULE Spec2Model ----------------------------
(***************************************************************************)
(* A model of libstoragemgmt's framed JSON transport                        *)
(* (src/lsm/lsm/transport.py), of the client polling loop of the plug-in    *)
(* test proxy (src/test/plugin_test.py) and of the plug-in contract         *)
(* (src/lsm/lsm/_iplugin.py).                                               *)
(*                                                                          *)
(* Text on the wire is a sequence of one-character strings.  A JSON value   *)
(* is a tagged record: VNull, VInt(n), VStr(chars), VObj(map), where map is *)
(* a function from keys (character sequences) to values.                    *)
(***************************************************************************)
EXTENDS Integers, Sequences, FiniteSets, TLC

(***************************************************************************)
(* Bounds of the model.                                                     *)
(***************************************************************************)
\* client operations (send_req, read_resp, rpc, raw write) per behaviour
MaxCalls == 2
\* longest "x" * l payload written one byte at a time (test_slow)
MaxDripLen == 2
\* payload lengths given to the sender by length only: d * 10^k, k <= MaxExp
MaxExp == 10
\* a recv returns 1..MaxChunk bytes, or all the bytes asked for and in flight
MaxChunk == 2
\* calls of TestProxy.present per behaviour
MaxOps == 2
\* INPROGRESS replies of a job before its COMPLETE or ERROR reply
MaxInProgress == 2
\* systems a plug-in manages
MaxSystems == 2
MaxCloses == 2
MaxWriters == 2
MaxPartialSends == 1
MaxJobs == 2
\* write calls a child of cmd_exec makes
MaxWrites == 2
\* bytes a pipe holds before a write to it blocks
PipeCap == 1

(***************************************************************************)
(* Program constants.                                                       *)
(***************************************************************************)
\* Transport.HDR_LEN
HDR_LEN == 10
\* the id send_req puts in every request, rpc's assertion and send_resp's default
FIXED_ID == 100

(***************************************************************************)
(* Characters and decimal text.                                             *)
(***************************************************************************)
Digits == <<"0", "1", "2", "3", "4", "5", "6", "7", "8", "9">>

DigitSet == {Digits[i] : i \in 1..10}

DigitVal(c) == (CHOOSE i \in 1..10 : Digits[i] = c) - 1

Min(a, b) == IF a <= b THEN a ELSE b

\* n copies of character c
Rep(c, n) == [i \in 1..n |-> c]

\* repr() of a non-negative integer: its decimal digits, no leading zero
RECURSIVE Repr(_)
Repr(n) == IF n < 10 THEN <<Digits[n + 1]>>
           ELSE Repr(n \div 10) \o <<Digits[(n % 10) + 1]>>

\* str.zfill(width) of an unsigned decimal text: zeros are added on the left up
\* to width; a text that is already width long or longer is returned as it is
ZFill(x, width) == IF Len(x) >= width THEN x ELSE Rep("0", width - Len(x)) \o x

\* int(text) for the texts a header can hold: optional blanks around an
\* optionally signed run of digits.  -1 stands for Python's ValueError (and
\* for every negative value, which __readAll rejects just the same).
RECURSIVE DigitsValue(_, _)
DigitsValue(s, acc) == IF s = <<>> THEN acc
                       ELSE DigitsValue(Tail(s), acc * 10 + DigitVal(Head(s)))

RECURSIVE LStrip(_)
LStrip(s) == IF s # <<>> /\ Head(s) = " " THEN LStrip(Tail(s)) ELSE s

RECURSIVE RStrip(_)
RStrip(s) == IF s # <<>> /\ s[Len(s)] = " " THEN RStrip(SubSeq(s, 1, Len(s) - 1)) ELSE s

PyInt(text) ==
    LET t == RStrip(LStrip(text))
        u == IF t # <<>> /\ Head(t) \in {"+", "-"} THEN Tail(t) ELSE t
    IN  IF u = <<>> \/ \E i \in 1..Len(u) : u[i] \notin DigitSet THEN -1
        ELSE IF Head(t) = "-" /\ DigitsValue(u, 0) > 0 THEN -1
        ELSE DigitsValue(u, 0)

(***************************************************************************)
(* JSON values.                                                             *)
(***************************************************************************)
VNull == [t |-> "null"]
VInt(n) == [t |-> "int", n |-> n]
VStr(s) == [t |-> "str", s |-> s]
VObj(m) == [t |-> "obj", m |-> m]

K_method == <<"m", "e", "t", "h", "o", "d">>
K_id == <<"i", "d">>
K_params == <<"p", "a", "r", "a", "m", "s">>
K_result == <<"r", "e", "s", "u", "l", "t">>
K_error == <<"e", "r", "r", "o", "r">>
K_code == <<"c", "o", "d", "e">>
K_message == <<"m", "e", "s", "s", "a", "g", "e">>
K_data == <<"d", "a", "t", "a">>
K_errorcode == <<"e", "r", "r", "o", "r", "c", "o", "d", "e">>
K_errormsg == <<"e", "r", "r", "o", "r", "m", "s", "g">>

\* The order in which the encoder writes the members of an object (the
\* iteration order of the dict; the decoder does not depend on it).
KeyOrder == <<K_params, K_id, K_method, K_result, K_error, K_code, K_message,
              K_data, K_errorcode, K_errormsg>>

\* a one-member, two-member, three-member dict
Dict1(k1, v1) == [k \in {k1} |-> v1]
Dict2(k1, v1, k2, v2) == [k \in {k1, k2} |-> IF k = k1 THEN v1 ELSE v2]
Dict3(k1, v1, k2, v2, k3, v3) ==
    [k \in {k1, k2, k3} |-> IF k = k1 THEN v1 ELSE IF k = k2 THEN v2 ELSE v3]

(***************************************************************************)
(* json.dumps(value, cls=DataEncoder) for plain values: null, non-negative  *)
(* integers, strings (with " and \ escaped) and objects, with the default   *)
(* separators ", " and ": ".                                                *)
(***************************************************************************)
RECURSIVE EscapeStr(_)
EscapeStr(s) ==
    IF s = <<>> THEN <<>>
    ELSE (IF Head(s) \in {"\"", "\\"} THEN <<"\\", Head(s)>> ELSE <<Head(s)>>)
         \o EscapeStr(Tail(s))

Quoted(s) == <<"\"">> \o EscapeStr(s) \o <<"\"">>

RECURSIVE JsonDumps(_)
RECURSIVE DumpMembers(_, _, _)
DumpMembers(m, i, first) ==
    IF i > Len(KeyOrder) THEN <<>>
    ELSE IF KeyOrder[i] \notin DOMAIN m THEN DumpMembers(m, i + 1, first)
    ELSE (IF first THEN <<>> ELSE <<",", " ">>)
         \o Quoted(KeyOrder[i]) \o <<":", " ">> \o JsonDumps(m[KeyOrder[i]])
         \o DumpMembers(m, i + 1, FALSE)

JsonDumps(v) ==
    CASE v.t = "null" -> <<"n", "u", "l", "l">>
      [] v.t = "int"  -> Repr(v.n)
      [] v.t = "str"  -> Quoted(v.s)
      [] v.t = "obj"  -> <<"{">> \o DumpMembers(v.m, 1, TRUE) \o <<"}">>

(***************************************************************************)
(* json.loads(text, cls=DataDecoder): a recursive-descent parser.  Each     *)
(* parser returns [ok, v, i]: whether it succeeded, the value, and the      *)
(* index of the first character it did not consume.  ok = FALSE is the      *)
(* decoder's ValueError.                                                    *)
(***************************************************************************)
ParseFail == [ok |-> FALSE, v |-> VNull, i |-> 0]

RECURSIVE SkipWs(_, _)
SkipWs(s, i) == IF i <= Len(s) /\ s[i] = " " THEN SkipWs(s, i + 1) ELSE i

\* i is the index after the opening quote
RECURSIVE ParseChars(_, _, _)
ParseChars(s, i, acc) ==
    IF i > Len(s) THEN [ok |-> FALSE, v |-> <<>>, i |-> 0]
    ELSE IF s[i] = "\"" THEN [ok |-> TRUE, v |-> acc, i |-> i + 1]
    ELSE IF s[i] = "\\"
         THEN IF i + 1 <= Len(s) /\ s[i + 1] \in {"\"", "\\", "/"}
              THEN ParseChars(s, i + 2, acc \o <<s[i + 1]>>)
              ELSE [ok |-> FALSE, v |-> <<>>, i |-> 0]
    ELSE ParseChars(s, i + 1, acc \o <<s[i]>>)

RECURSIVE NumEnd(_, _)
NumEnd(s, i) == IF i <= Len(s) /\ s[i] \in DigitSet THEN NumEnd(s, i + 1) ELSE i

IsWord(s, i, w) == i + Len(w) - 1 <= Len(s) /\ SubSeq(s, i, i + Len(w) - 1) = w

RECURSIVE ParseValue(_, _)
RECURSIVE ParseMembers(_, _, _)
\* i is the index where the next member's key (or, for an empty object, the
\* closing brace) is expected
ParseMembers(s, i, acc) ==
    LET j == SkipWs(s, i) IN
    IF j > Len(s) THEN ParseFail
    ELSE IF s[j] = "}" /\ DOMAIN acc = {} THEN [ok |-> TRUE, v |-> VObj(acc), i |-> j + 1]
    ELSE IF s[j] # "\"" THEN ParseFail
    ELSE LET key == ParseChars(s, j + 1, <<>>) IN
         IF ~key.ok THEN ParseFail
         ELSE LET c == SkipWs(s, key.i) IN
              IF c > Len(s) \/ s[c] # ":" THEN ParseFail
              ELSE LET val == ParseValue(s, c + 1) IN
                   IF ~val.ok THEN ParseFail
                   ELSE LET e == SkipWs(s, val.i)
                            m == [k \in DOMAIN acc \cup {key.v} |->
                                     IF k = key.v THEN val.v ELSE acc[k]]
                        IN  IF e > Len(s) THEN ParseFail
                            ELSE IF s[e] = "}" THEN [ok |-> TRUE, v |-> VObj(m), i |-> e + 1]
                            ELSE IF s[e] = "," THEN ParseMembers(s, e + 1, m)
                            ELSE ParseFail

ParseValue(s, i) ==
    LET j == SkipWs(s, i) IN
    IF j > Len(s) THEN ParseFail
    ELSE IF s[j] = "{" THEN ParseMembers(s, j + 1, <<>>)
    ELSE IF s[j] = "\""
         THEN LET r == ParseChars(s, j + 1, <<>>) IN
              IF r.ok THEN [ok |-> TRUE, v |-> VStr(r.v), i |-> r.i] ELSE ParseFail
    ELSE IF s[j] \in DigitSet
         THEN LET e == NumEnd(s, j) IN
              \* a number does not start with a superfluous zero
              IF s[j] = "0" /\ e > j + 1 THEN ParseFail
              ELSE [ok |-> TRUE, v |-> VInt(DigitsValue(SubSeq(s, j, e - 1), 0)), i |-> e]
    ELSE IF IsWord(s, j, <<"n", "u", "l", "l">>) THEN [ok |-> TRUE, v |-> VNull, i |-> j + 4]
    ELSE ParseFail

JsonLoads(s) ==
    LET r == ParseValue(s, 1) IN
    IF r.ok /\ SkipWs(s, r.i) = Len(s) + 1 THEN [ok |-> TRUE, v |-> r.v]
    ELSE [ok |-> FALSE, v |-> VNull]

(***************************************************************************)
(* Transport: framing (__sendMsg, __readAll, __recvMsg).                    *)
(***************************************************************************)
\* A faulty variant: a __sendMsg that turns down None alone
MsgRejected_NoneOnly(isNone, lenRepr) == isNone

\* __sendMsg's test "msg is None or len(msg) < 1", on the repr of len(msg)
MsgRejected(isNone, lenRepr) == isNone \/ lenRepr = <<"0">>

\* the length header __sendMsg writes: string.zfill(len(msg), HDR_LEN)
Header(lenRepr) == ZFill(lenRepr, HDR_LEN)

\* the bytes __sendMsg hands to sendall for a non-empty msg
SendMsg(msg) == Header(Repr(Len(msg))) \o msg

\* A faulty variant: a __readAll that returns after its first recv
ReadAllContinues_OneRecv(data, l) == FALSE

\* __readAll's loop test: another recv is needed
ReadAllContinues(data, l) == Len(data) < l

\* A faulty variant: a __readAll that asks recv for l bytes on every pass
RecvSize_WholeLength(data, l) == l

\* the size __readAll asks of recv
RecvSize(data, l) == l - Len(data)

\* the numbers of bytes a recv of size bytes may return when avail are in flight
RecvCounts(avail, size) ==
    {k \in 1..Min(avail, size) : k <= MaxChunk \/ k = Min(avail, size)}

\* A receive in progress: which __readAll call of __recvMsg is running
\* (phase "hdr" or "body"; "idle": none), what it has buffered, what it needs.
RdIdle == [phase |-> "idle", buf |-> <<>>, need |-> 0]
RdStart == [phase |-> "hdr", buf |-> <<>>, need |-> HDR_LEN]

\* A faulty variant: a __readAll without the "l < 1" test for 0, which
\* returns an empty string when asked for no byte
ReadAllReturn_ZeroAllowed(rd, data) ==
    IF rd.phase = "hdr"
    THEN IF PyInt(data) < 0
         THEN [st |-> "ValueError", rd |-> RdIdle, data |-> <<>>, n |-> PyInt(data)]
         ELSE IF PyInt(data) = 0
         THEN [st |-> "data", rd |-> RdIdle, data |-> <<>>, n |-> 0]
         ELSE [st |-> "more", rd |-> [phase |-> "body", buf |-> <<>>, need |-> PyInt(data)],
               data |-> <<>>, n |-> PyInt(data)]
    ELSE [st |-> "data", rd |-> RdIdle, data |-> data, n |-> rd.need]

\* What __recvMsg does once a __readAll call has returned data: after the
\* header, int(l) and the "l < 1" test of the next __readAll; after the body,
\* the data is returned to read_req / read_resp.
ReadAllReturn(rd, data) ==
    IF rd.phase = "hdr"
    THEN IF PyInt(data) < 1
         THEN [st |-> "ValueError", rd |-> RdIdle, data |-> <<>>, n |-> PyInt(data)]
         ELSE [st |-> "more", rd |-> [phase |-> "body", buf |-> <<>>, need |-> PyInt(data)],
               data |-> <<>>, n |-> PyInt(data)]
    ELSE [st |-> "data", rd |-> RdIdle, data |-> data, n |-> rd.need]

\* A faulty variant: a __readAll that takes an empty recv for the end of the data
RecvEmpty_AsEnd(rd) == ReadAllReturn(rd, rd.buf)

\* A faulty variant: a __recvMsg that starts over after an empty recv
RecvEmpty_Retry(rd) == [st |-> "SocketEOF", rd |-> RdStart, data |-> <<>>, n |-> rd.need]

\* recv returned no byte: the peer has closed
RecvEmpty(rd) == [st |-> "SocketEOF", rd |-> RdIdle, data |-> <<>>, n |-> rd.need]

\* One pass of __readAll's loop with r the bytes recv returned.
RecvStep(rd, r) ==
    IF r = <<>> THEN RecvEmpty(rd)
    ELSE IF ReadAllContinues(rd.buf \o r, rd.need)
         THEN [st |-> "more", rd |-> [rd EXCEPT !.buf = rd.buf \o r], data |-> <<>>, n |-> rd.need]
         ELSE ReadAllReturn(rd, rd.buf \o r)

(***************************************************************************)
(* Transport: messages (send_req, send_resp, send_error, read_req,         *)
(* read_resp, rpc).                                                         *)
(***************************************************************************)
\* A faulty variant: a send_req that numbers its request with another id
ReqMsg_OtherId(method, args) ==
    VObj(Dict3(K_method, VStr(method), K_id, VInt(FIXED_ID + 1), K_params, args))

\* send_req's dict
ReqMsg(method, args) == VObj(Dict3(K_method, VStr(method), K_id, VInt(FIXED_ID), K_params, args))

\* the bytes on the stream after send_req was called for each request of
\* log: one frame after the other
RECURSIVE ReqFrames(_)
ReqFrames(log) ==
    IF log = <<>> THEN <<>>
    ELSE SendMsg(JsonDumps(ReqMsg(Head(log).method, Head(log).params))) \o ReqFrames(Tail(log))

\* A faulty variant: a send_resp that leaves the result out
RespMsg_NoResult(result, id) == VObj(Dict2(K_id, VInt(id), K_result, VNull))

\* send_resp's dict
RespMsg(result, id) == VObj(Dict2(K_id, VInt(id), K_result, result))

\* A faulty variant: a send_error that sends no id
ErrorMsg_NullId(id, code, msg) ==
    VObj(Dict2(K_id, VNull, K_error, VObj(Dict3(K_code, code, K_message, msg, K_data, VNull))))

\* A faulty variant: a send_error that puts the id in the place of the code
ErrorMsg_IdAsCode(id, code, msg) ==
    VObj(Dict2(K_id, id, K_error, VObj(Dict3(K_code, id, K_message, msg, K_data, VNull))))

\* send_error's dict (data defaults to None)
ErrorMsg(id, code, msg) ==
    VObj(Dict2(K_id, id, K_error, VObj(Dict3(K_code, code, K_message, msg, K_data, VNull))))

\* What a call returned or raised.  kind "ok": it returned val (and id);
\* any other kind names the exception; an LsmError carries code and msg.
Result(kind, val, id, code, msg) ==
    [kind |-> kind, val |-> val, id |-> id, code |-> code, msg |-> msg]

Raised(kind) == Result(kind, VNull, VNull, VNull, VNull)

\* LsmError(code, message, data): the exception keeps code and msg
LsmError(e) ==
    IF {K_code, K_message} \subseteq DOMAIN e
    THEN Result("LsmError", VNull, VNull, e[K_code], e[K_message])
    ELSE Raised("TypeError")

\* read_resp on the decoded reply: a (result, id) pair, or LsmError(**error)
ReadRespResult(resp) ==
    IF resp.t # "obj" THEN Raised("TypeError")
    ELSE IF K_result \in DOMAIN resp.m
         THEN IF K_id \in DOMAIN resp.m
              THEN Result("ok", resp.m[K_result], resp.m[K_id], VNull, VNull)
              ELSE Raised("KeyError")
    ELSE IF K_error \in DOMAIN resp.m /\ resp.m[K_error].t = "obj"
         THEN LsmError(resp.m[K_error].m)
         ELSE Raised("KeyError")

\* A faulty variant: an rpc that returns the reply's id in the place of its result
RpcResult_ReturnsId(r) ==
    IF r.kind = "ok" /\ r.id # VInt(FIXED_ID)
    THEN Result("AssertionError", VNull, r.id, VNull, VNull)
    ELSE IF r.kind = "ok" THEN Result("ok", r.id, r.id, VNull, VNull)
    ELSE r

\* rpc on what read_resp returned or raised: "assert id == 100"
RpcResult(r) ==
    IF r.kind = "ok" /\ r.id # VInt(FIXED_ID)
    THEN Result("AssertionError", VNull, r.id, VNull, VNull)
    ELSE r

\* A faulty variant: an rpc that returns without reading the reply
RpcAfterSend_NoRead == RdIdle

\* what rpc does after send_req: it calls read_resp
RpcAfterSend == RdStart

(***************************************************************************)
(* The values the two ends exchange.                                        *)
(***************************************************************************)
M_test == <<"t", "e", "s", "t">>
M_error == <<"e", "r", "r", "o", "r">>
M_done == <<"d", "o", "n", "e">>
M_drip == <<"d", "r", "i", "p">>

\* test_simple's payloads: whitespace only, JSON punctuation; and an empty object
TestPayloads == {VStr(<<" ">>), VStr(<<"{", "}", ":", "\"", "\"">>), VObj(<<>>)}

\* test_exceptions' error code and message (shortened), and another pair
ErrInputs == {<<100, <<"T", "e", "s", "t", " ", "e", "r", "r">> >>, <<2, <<"\\", "\"">> >>}

ErrParams(c, m) == VObj(Dict2(K_errorcode, VInt(c), K_errormsg, VStr(m)))

Req(method, params) == [method |-> method, params |-> params]

\* the requests the client sends with send_req or rpc
Requests ==
    {Req(M_test, p) : p \in TestPayloads}
    \cup {Req(M_error, ErrParams(e[1], e[2])) : e \in ErrInputs}
    \cup {Req(M_done, VNull)}

\* the ids a peer passes to send_resp
RespIds == {FIXED_ID, 7}

\* Descriptors of the frames in flight (history, for stating the claims):
\* what was passed to the send call that wrote the frame.
NoReq == Req(<<>>, VNull)
Reply(kind, val, id, code, msg, req) ==
    [kind |-> kind, val |-> val, id |-> id, code |-> code, msg |-> msg, req |-> req]
NoReply == Reply("none", VNull, VNull, VNull, VNull, NoReq)

(***************************************************************************)
(* State.                                                                   *)
(***************************************************************************)
VARIABLES
    cs,       \* bytes written by the client and not yet received by the server
    sc,       \* bytes written by the server and not yet received by the client
    csLog,    \* history: the requests whose frames are (partly) in cs
    scLog,    \* history: the replies whose frames are in sc
    cclosed,  \* the client has closed its socket
    closes,   \* history: calls of close() on the client's Transport
    sclosed,  \* the server has closed its socket
    cop,      \* the call the client is blocked in: "none", "read_resp", "rpc"
    crd,      \* the client's receive in progress
    cres,     \* what the client's last call returned or raised
    srd,      \* the server's receive in progress ("idle": server() has ended)
    sfirst,   \* the server is in its first read_req, before the try block
    sres,     \* what the server's last read_req and dispatch did
    calls,    \* client calls made so far
    drip,     \* bytes of a raw frame the client has still to write
    pending,  \* history: requests written whose reply the client has not read
    direct,   \* history: a request was written outside rpc
    hIn,      \* a message given to __sendMsg by its length only
    hOut      \* what __sendMsg did with it

tvars == <<cs, sc, csLog, scLog, cclosed, closes, sclosed, cop, crd, cres, srd, sfirst,
           sres, calls, drip, pending, direct>>
hvars == <<hIn, hOut>>

\* history fields of a finished call: op, the declared length n of the last
\* frame read, the length got of the data given to the decoder (-1: the
\* decoder was not called), whether recv returned no byte, the frame read,
\* the frames the call wrote
CRes(r, op, n, got, eof, frame, sent) ==
    [kind |-> r.kind, val |-> r.val, id |-> r.id, code |-> r.code, msg |-> r.msg,
     op |-> op, n |-> n, got |-> got, eof |-> eof, frame |-> frame, sent |-> sent]

SRes(kind, msg, n, got, eof, frame, reply) ==
    [kind |-> kind, msg |-> msg, n |-> n, got |-> got, eof |-> eof,
     frame |-> frame, reply |-> reply]

InitTransport ==
    /\ cs = <<>> /\ sc = <<>> /\ csLog = <<>> /\ scLog = <<>>
    /\ cclosed = FALSE /\ closes = 0 /\ sclosed = FALSE
    /\ cop = "none" /\ crd = RdIdle
    /\ cres = CRes(Raised("none"), "none", 0, -1, FALSE, NoReply, 0)
    /\ srd = RdStart /\ sfirst = TRUE
    /\ sres = SRes("none", VNull, 0, -1, FALSE, NoReq, NoReply)
    /\ calls = 0 /\ drip = <<>> /\ pending = 0 /\ direct = FALSE

(***************************************************************************)
(* The client: a user of Transport, as the test cases of TestTransport are. *)
(***************************************************************************)
ClientIdle == cop = "none" /\ drip = <<>>

\* sendall(frame) on the client's socket.  Writing to a socket that was
\* closed, or whose peer has closed, raises socket.error and puts nothing on
\* the stream.
ClientWrite(frame, req, viaRpc) ==
    IF cclosed \/ sclosed
    THEN /\ cres' = CRes(Raised("socket.error"), IF viaRpc THEN "rpc" ELSE "send_req",
                         0, -1, FALSE, NoReply, 0)
         /\ UNCHANGED <<cs, csLog, pending, cop, crd>>
    ELSE /\ cs' = cs \o frame
         /\ csLog' = Append(csLog, req)
         /\ pending' = pending + 1
         /\ IF viaRpc
            THEN /\ crd' = RpcAfterSend
                 /\ cop' = IF RpcAfterSend = RdIdle THEN "none" ELSE "rpc"
                 /\ cres' = CRes(Raised("none"), "rpc", 0, -1, FALSE, NoReply, 1)
            ELSE /\ cres' = CRes(Result("ok", VNull, VNull, VNull, VNull), "send_req",
                                 0, -1, FALSE, NoReply, 1)
                 /\ UNCHANGED <<cop, crd>>

\* Transport.send_req(method, args)
SendReq(req) ==
    /\ ClientIdle /\ calls < MaxCalls
    /\ calls' = calls + 1
    /\ direct' = TRUE
    /\ ClientWrite(SendMsg(JsonDumps(ReqMsg(req.method, req.params))), req, FALSE)
    /\ UNCHANGED <<sc, scLog, cclosed, closes, sclosed, srd, sfirst, sres, drip>>

\* Transport.rpc(method, args): send_req, then read_resp (continued by ClientRecv)
Rpc(req) ==
    /\ ClientIdle /\ calls < MaxCalls
    /\ calls' = calls + 1
    /\ ClientWrite(SendMsg(JsonDumps(ReqMsg(req.method, req.params))), req, TRUE)
    /\ UNCHANGED <<sc, scLog, cclosed, closes, sclosed, srd, sfirst, sres, drip, direct>>

\* Transport.read_resp(): the call starts; ClientRecv continues it.  The
\* recv of a socket that was closed raises socket.error.
ReadResp ==
    /\ ClientIdle /\ calls < MaxCalls
    /\ calls' = calls + 1
    /\ IF cclosed
       THEN /\ cres' = CRes(Raised("socket.error"), "read_resp", 0, -1, FALSE, NoReply, 0)
            /\ UNCHANGED <<cop, crd>>
       ELSE /\ cop' = "read_resp"
            /\ crd' = RdStart
            /\ cres' = CRes(Raised("none"), "read_resp", 0, -1, FALSE, NoReply, 0)
    /\ UNCHANGED <<cs, sc, csLog, scLog, cclosed, closes, sclosed, srd, sfirst, sres, drip,
                   pending, direct>>

\* test_slow: the frame of a "drip" request with payload "x" * l is written
\* to the socket one byte per send; this is the first byte
DripStart(l) ==
    /\ ClientIdle /\ calls < MaxCalls /\ ~cclosed /\ ~sclosed
    /\ calls' = calls + 1
    /\ direct' = TRUE
    /\ LET wire == SendMsg(JsonDumps(ReqMsg(M_drip, VStr(Rep("x", l))))) IN
       /\ cs' = cs \o <<Head(wire)>>
       /\ drip' = Tail(wire)
    /\ csLog' = Append(csLog, Req(M_drip, VStr(Rep("x", l))))
    /\ pending' = pending + 1
    /\ cres' = CRes(Raised("none"), "drip", 0, -1, FALSE, NoReply, 1)
    /\ UNCHANGED <<sc, scLog, cclosed, closes, sclosed, cop, crd, srd, sfirst, sres>>

\* test_slow: the next byte
DripByte ==
    /\ drip # <<>> /\ ~cclosed /\ ~sclosed
    /\ cs' = cs \o <<Head(drip)>>
    /\ drip' = Tail(drip)
    /\ UNCHANGED <<sc, csLog, scLog, cclosed, closes, sclosed, cop, crd, cres, srd, sfirst,
                   sres, calls, pending, direct>>

\* A faulty variant: a close that opens a socket that was closed
SocketClose_Toggle(closed) == ~closed

\* socket.close(): the socket is closed, whether or not it was before
SocketClose(closed) == TRUE

\* Transport.close() on the client, between two calls or between two bytes
\* of a raw write: what was not written is never written
ClientClose ==
    /\ cop = "none" /\ closes < MaxCloses
    /\ closes' = closes + 1
    /\ cclosed' = SocketClose(cclosed)
    /\ drip' = <<>>
    /\ UNCHANGED <<cs, sc, csLog, scLog, sclosed, cop, crd, cres, srd, sfirst, sres,
                   calls, pending, direct>>

\* read_resp (alone or inside rpc) once the receive has returned or raised:
\* step is what __recvMsg did, eof whether the last recv returned no byte
ClientFinish(step, eof, head) ==
    \E dec \in {IF step.st = "data" THEN JsonLoads(step.data) ELSE [ok |-> FALSE, v |-> VNull]} :
    \E res \in {IF step.st # "data" THEN Raised(step.st)
                ELSE IF ~dec.ok THEN Raised("ValueError")
                ELSE IF cop = "rpc" THEN RpcResult(ReadRespResult(dec.v))
                ELSE ReadRespResult(dec.v)} :
        /\ crd' = step.rd
        /\ cop' = "none"
        /\ cres' = CRes(res, cop, step.n, IF step.st = "data" THEN Len(step.data) ELSE -1,
                        eof, head, cres.sent)
        /\ scLog' = IF step.st = "data" /\ scLog # <<>> THEN Tail(scLog) ELSE scLog
        /\ pending' = IF step.st = "data" /\ pending > 0 THEN pending - 1 ELSE pending

\* read_resp (alone or inside rpc) after one more recv that returned r
ClientRecvBytes(r) ==
    \E step \in {RecvStep(crd, r)} :
        /\ sc' = SubSeq(sc, Len(r) + 1, Len(sc))
        /\ IF step.st = "more"
           THEN /\ crd' = step.rd
                /\ UNCHANGED <<cop, cres, scLog, pending>>
           ELSE ClientFinish(step, r = <<>>, IF scLog = <<>> THEN NoReply ELSE Head(scLog))

\* recv returns some of the bytes in flight, at most as many as were asked for
ClientRecv ==
    /\ cop # "none"
    /\ \E k \in RecvCounts(Len(sc), RecvSize(crd.buf, crd.need)) :
       \E r \in {SubSeq(sc, 1, k)} : ClientRecvBytes(r)
    /\ UNCHANGED <<cs, csLog, cclosed, closes, sclosed, srd, sfirst, sres, calls, drip, direct>>

\* recv returns no byte: nothing is in flight and the server has closed
ClientRecvEOF ==
    /\ cop # "none" /\ sc = <<>> /\ sclosed
    /\ ClientRecvBytes(<<>>)
    /\ UNCHANGED <<cs, csLog, cclosed, closes, sclosed, srd, sfirst, sres, calls, drip, direct>>

(***************************************************************************)
(* The server: server(s), the echo server of the test cases.                *)
(***************************************************************************)
\* What one turn of server()'s loop does with the message read_req returned:
\* the frame it sends, whether it then stops, and the exception if one is
\* raised.  id is the id passed to send_resp (FIXED_ID: the default).
NoSend(kind) == [kind |-> kind, frame |-> <<>>, reply |-> NoReply, stop |-> TRUE]

ServerDispatch(msg, id, req) ==
    IF msg.t # "obj" THEN NoSend("TypeError")
    ELSE IF ~({K_method, K_params, K_id} \subseteq DOMAIN msg.m) THEN NoSend("KeyError")
    ELSE LET method == msg.m[K_method]
             params == msg.m[K_params]
         IN  IF method = VStr(M_done)
             THEN [kind |-> "done",
                   frame |-> SendMsg(JsonDumps(RespMsg(params, FIXED_ID))),
                   reply |-> Reply("resp", params, VInt(FIXED_ID), VNull, VNull, req),
                   stop |-> TRUE]
             ELSE IF method = VStr(M_error)
             THEN IF params.t # "obj" THEN NoSend("TypeError")
                  ELSE IF ~({K_errorcode, K_errormsg} \subseteq DOMAIN params.m)
                       THEN NoSend("KeyError")
                  ELSE [kind |-> "ok",
                        frame |-> SendMsg(JsonDumps(ErrorMsg(msg.m[K_id], params.m[K_errorcode],
                                                             params.m[K_errormsg]))),
                        reply |-> Reply("error", VNull, msg.m[K_id], params.m[K_errorcode],
                                        params.m[K_errormsg], req),
                        stop |-> FALSE]
             ELSE [kind |-> "ok",
                   frame |-> SendMsg(JsonDumps(RespMsg(params, id))),
                   reply |-> Reply("resp", params, VInt(id), VNull, VNull, req),
                   stop |-> FALSE]

\* server() once read_req has returned msg: one turn of the loop.  The send
\* fails with socket.error when the client has closed.  The socket is closed
\* (finally) when the loop ends or an exception is raised.
ServerTurn(msg, n, got, id, head) ==
    \E d \in {ServerDispatch(msg, id, head)} :
    \E sent \in {d.frame # <<>> /\ ~cclosed} :
        /\ csLog' = IF csLog = <<>> THEN csLog ELSE Tail(csLog)
        /\ sfirst' = FALSE
        /\ sc' = IF sent THEN sc \o d.frame ELSE sc
        /\ scLog' = IF sent THEN Append(scLog, d.reply) ELSE scLog
        /\ srd' = IF sent /\ ~d.stop THEN RdStart ELSE RdIdle
        /\ sclosed' = ~(sent /\ ~d.stop)
        /\ sres' = SRes(IF d.frame # <<>> /\ cclosed THEN "socket.error" ELSE d.kind,
                        msg, n, got, FALSE, head, IF sent THEN d.reply ELSE NoReply)

\* server() once read_req has raised: an exception raised by the first
\* read_req leaves server() before the try block and the socket stays open;
\* a later one closes it (finally).
ServerRaise(rd, kind, n, got, eof, head) ==
    /\ srd' = rd
    /\ sclosed' = ~sfirst
    /\ sres' = SRes(kind, VNull, n, got, eof, head, NoReply)
    /\ UNCHANGED <<sfirst, sc, scLog, csLog>>

\* server() after one more recv that returned r
ServerRecvBytes(r, id) ==
    \E step \in {RecvStep(srd, r)} :
    \E head \in {IF csLog = <<>> THEN NoReq ELSE Head(csLog)} :
        /\ cs' = SubSeq(cs, Len(r) + 1, Len(cs))
        /\ IF step.st = "more"
           THEN /\ srd' = step.rd
                /\ UNCHANGED <<sfirst, sres, sclosed, sc, scLog, csLog>>
           ELSE IF step.st = "data"
           THEN \E dec \in {JsonLoads(step.data)} :
                    IF dec.ok
                    THEN ServerTurn(dec.v, step.n, Len(step.data), id, head)
                    ELSE ServerRaise(step.rd, "ValueError", step.n, Len(step.data), FALSE, head)
           ELSE ServerRaise(step.rd, step.st, step.n, -1, r = <<>>, head)

\* the server's recv returns some of the bytes in flight
ServerRecv ==
    /\ srd.phase # "idle"
    /\ \E k \in RecvCounts(Len(cs), RecvSize(srd.buf, srd.need)) :
       \E r \in {SubSeq(cs, 1, k)} : ServerRecvBytes(r, FIXED_ID)
    /\ UNCHANGED <<cclosed, closes, cop, crd, cres, calls, drip, pending, direct>>

\* the server's recv returns no byte: nothing is in flight, the client has closed
ServerRecvEOF ==
    /\ srd.phase # "idle" /\ cs = <<>> /\ cclosed
    /\ ServerRecvBytes(<<>>, FIXED_ID)
    /\ UNCHANGED <<cclosed, closes, cop, crd, cres, calls, drip, pending, direct>>

\* A peer that answers with send_resp(result, id), id not the default: the
\* recv that completes a request other than "done" and "error".
PeerRecvReplyId(id) ==
    /\ srd.phase = "body"
    /\ Len(cs) >= RecvSize(srd.buf, srd.need)
    /\ csLog # <<>> /\ Head(csLog).method \notin {M_done, M_error}
    /\ \E r \in {SubSeq(cs, 1, RecvSize(srd.buf, srd.need))} : ServerRecvBytes(r, id)
    /\ UNCHANGED <<cclosed, closes, cop, crd, cres, calls, drip, pending, direct>>

(***************************************************************************)
(* Ends of the socket pair that write bytes of their own: what a Transport  *)
(* receives is not always a frame of another Transport.                     *)
(***************************************************************************)
\* Bytes that are no frame: a header of zeros, a negative header and a
\* header without digits, each followed by one more byte, and a frame cut
\* short after the first byte of its payload
RawInputs ==
    {Rep("0", HDR_LEN) \o <<"x">>,
     <<"-">> \o Header(<<"1">>) \o <<"x">>,
     Rep("x", HDR_LEN) \o <<"x">>,
     Header(<<"5">>) \o <<"x">>}

\* the client's socket is written to directly, as test_slow does
ClientRawSend(raw) ==
    /\ ClientIdle /\ calls < MaxCalls /\ ~cclosed /\ ~sclosed
    /\ calls' = calls + 1
    /\ direct' = TRUE
    /\ cs' = cs \o raw
    /\ cres' = CRes(Raised("none"), "raw", 0, -1, FALSE, NoReply, 0)
    /\ UNCHANGED <<sc, csLog, scLog, cclosed, closes, sclosed, cop, crd, srd, sfirst,
                   sres, drip, pending>>

\* a peer that is not server() writes to its socket
PeerRawSend(raw) ==
    /\ ~sclosed /\ ~cclosed /\ sc = <<>> /\ scLog = <<>>
    /\ sc' = raw
    /\ UNCHANGED <<cs, csLog, scLog, cclosed, closes, sclosed, cop, crd, cres, srd,
                   sfirst, sres, calls, drip, pending, direct>>

\* ... and closes it
PeerClose ==
    /\ ~sclosed
    /\ sclosed' = TRUE
    /\ srd' = RdIdle
    /\ UNCHANGED <<cs, sc, csLog, scLog, cclosed, closes, cop, crd, cres, sfirst,
                   sres, calls, drip, pending, direct>>

(***************************************************************************)
(* __sendMsg on a message given by its length only (the payload is not      *)
(* spelled out, so that lengths of more than ten digits can be given).      *)
(***************************************************************************)
\* the lengths: 0, and d * 10^k as decimal text
LenReprs == {<<"0">>} \cup {<<Digits[d + 1]>> \o Rep("0", k) : d \in 1..9, k \in 0..MaxExp}

HdrInputs == {[isNone |-> TRUE, len |-> <<"0">>]}
             \cup {[isNone |-> FALSE, len |-> n] : n \in LenReprs}

HdrIdle == [kind |-> "none", hdr |-> <<>>]

\* __sendMsg(msg): ValueError, or the header is written (followed by msg)
SendMsgLen ==
    /\ hOut.kind = "none"
    /\ hOut' = IF MsgRejected(hIn.isNone, hIn.len)
               THEN [kind |-> "ValueError", hdr |-> <<>>]
               ELSE [kind |-> "sent", hdr |-> Header(hIn.len)]
    /\ UNCHANGED <<hIn>>

(***************************************************************************)
(* The plug-in test proxy (TestProxy.present, TestProxy.wait_for_it) and    *)
(* the plug-in it wraps.  None is the empty tuple, a job handle is          *)
(* <<"job", i>>, a completed item is <<"vol">>.                             *)
(***************************************************************************)
None == <<>>
JobId(i) == <<"job", i>>
Vol == <<"vol">>
\* the empty unicode string: a handle that is not None and yet not true
NoText == <<"">>

\* What a call returns: a bare value a (t "scalar"), the tuple (a, b)
\* (t "pair"), or a list a (t "list").
Scalar(a) == [t |-> "scalar", a |-> a, b |-> None]
Pair(a, b) == [t |-> "pair", a |-> a, b |-> b]
List(n) == [t |-> "list", a |-> [i \in 1..n |-> Vol], b |-> None]

\* TestProxy.async_calls, by the shape of each entry: a pair of types, a
\* one-element tuple, or "(unicode)", which is the type and not a tuple
AsyncCalls ==
    [volume_create |-> "pair", volume_delete |-> "single",
     volume_child_dependency_rm |-> "type"]

\* the operations called through the proxy, and those it calls itself
ProxyNames == DOMAIN AsyncCalls \cup {"pools"}
ResultNames == ProxyNames \cup {"job_status", "job_free"}

\* present: job_possible
JobPossible(name) == name \in DOMAIN AsyncCalls

\* A job of the plug-in: its next left status replies are INPROGRESS, then
\* every reply is fate ("COMPLETE" or "ERROR"); item is the completed item.
Job(left, fate, item) ==
    [left |-> left, total |-> left, fate |-> fate, item |-> item, polls |-> 0, frees |-> 0]

\* the course of a job: INPROGRESS replies, then COMPLETE or ERROR, or a
\* job_status call that raises LsmError
JobPlans ==
    {[left |-> l, fate |-> f] : l \in 0..MaxInProgress, f \in {"COMPLETE", "ERROR", "LsmError"}}

\* IPlugin.job_status: "else LsmError exception"
JobStatusFails(j) == j.left = 0 /\ j.fate = "LsmError"

\* A faulty variant: a job_status that reports 100 percent all the time
JobStatusReply_AlwaysFull(j) ==
    IF j.left > 0 THEN <<"INPROGRESS", 100, None>>
    ELSE IF j.fate = "COMPLETE" THEN <<"COMPLETE", 100, j.item>>
    ELSE <<"ERROR", 100, None>>

\* IPlugin.job_status: (status, percent_complete, completed item)
JobStatusReply(j) ==
    IF j.left > 0
    THEN <<"INPROGRESS", (100 * (j.total - j.left)) \div (j.total + 1), None>>
    ELSE IF j.fate = "COMPLETE" THEN <<"COMPLETE", 100, j.item>>
    ELSE <<"ERROR", (100 * j.total) \div (j.total + 1), None>>

\* What the wrapped method does when called, h being the handle of a job it
\* may start: it raises LsmError, or returns; a (job, value) pair has exactly
\* one slot set, a "job id or None" operation returns one or the other, a
\* query returns a list.
PluginOutcomes(name, h) ==
    {[exc |-> TRUE, rc |-> Scalar(None), job |-> FALSE]}
    \cup
    IF name = "pools"
    THEN {[exc |-> FALSE, rc |-> List(n), job |-> FALSE] : n \in {0, 3}}
    ELSE IF AsyncCalls[name] = "pair"
    THEN {[exc |-> FALSE, rc |-> Pair(h, None), job |-> TRUE],
          [exc |-> FALSE, rc |-> Pair(None, Vol), job |-> FALSE]}
    ELSE {[exc |-> FALSE, rc |-> Scalar(h), job |-> TRUE],
          [exc |-> FALSE, rc |-> Scalar(None), job |-> FALSE],
          [exc |-> FALSE, rc |-> Scalar(NoText), job |-> FALSE]}

\* the item a job started by operation name completes with
JobItem(name) == IF AsyncCalls[name] = "pair" THEN Vol ELSE None

\* A faulty variant: a present that takes a bare return value for the item
AsTuple_Swapped(rc) == IF rc.t \notin {"pair", "list"} THEN Pair(None, rc.a) ELSE rc

\* present: "if type(rc) != tuple and type(rc) != list: rc = (rc, None)"
AsTuple(rc) == IF rc.t \notin {"pair", "list"} THEN Pair(rc.a, None) ELSE rc

\* present: "job_possible and rc is not None"
WaitsForIt(name, rc) == JobPossible(name) /\ rc # Scalar(None)

\* wait_for_it: "if not job: return item"
WaitNoJob(job) == job \in {None, NoText}

\* A faulty variant: a wait_for_it that has no COMPLETE branch
WaitBranch_NoComplete(s) == IF s = "INPROGRESS" THEN "sleep" ELSE "raise"

\* A faulty variant: a wait_for_it that frees the job on its first reply
WaitBranch_FreeAtOnce(s) == "free_return"

\* A faulty variant: a wait_for_it that gives up on a job in progress
WaitBranch_GivesUp(s) == IF s = "COMPLETE" THEN "free_return" ELSE "raise"

\* wait_for_it: what the loop does on status s
WaitBranch(s) ==
    IF s = "INPROGRESS" THEN "sleep"
    ELSE IF s = "COMPLETE" THEN "free_return"
    ELSE "raise"

\* A faulty variant: a wait_for_it that returns its own item after COMPLETE
WaitReturn_Item(i, item) == item

\* wait_for_it: what it returns after COMPLETE, given the reply's item i and
\* its own argument item
WaitReturn(i, item) == i

\* A faulty variant: a fix-up that makes a pair of every return value
FixUp_PairForAll(name, rc) == [exc |-> "none", rc |-> Pair(None, rc.a)]

\* present's fix-up of the return value: "2 == len(async_calls[name])";
\* len of a type raises TypeError
FixUp(name, rc) ==
    IF ~JobPossible(name) THEN [exc |-> "none", rc |-> rc]
    ELSE IF AsyncCalls[name] = "type" THEN [exc |-> "TypeError", rc |-> rc]
    ELSE IF AsyncCalls[name] = "pair" THEN [exc |-> "none", rc |-> Pair(None, rc.a)]
    ELSE [exc |-> "none", rc |-> rc]

\* len(rc) of a returned tuple or list
RcLen(rc) == IF rc.t = "pair" THEN 2 ELSE Len(rc.a)

\* present: num_results for a call that returned rc
NumResults(name, rc) ==
    IF ~JobPossible(name) /\ rc.t \in {"pair", "list"} /\ RcLen(rc) > 2
    THEN RcLen(rc) ELSE 0

\* num_results for job_status's three-element tuple
JobStatusItems == Len(<<"status", "percent", "item">>)

NoStats == [count |-> 0, number_items |-> 0]

\* A faulty variant: a present that records the calls that returned only
RecordResult_ReturnedOnly(res, name, ok) ==
    IF ok THEN [res EXCEPT ![name] = Append(@, ok)] ELSE res

\* present: results[name].append(dict(rc=ok, ...))
RecordResult(res, name, ok) == [res EXCEPT ![name] = Append(@, ok)]

\* history: how many calls of present for name returned (ok) and how many
\* raised (exc)
NoEnded == [ok |-> 0, exc |-> 0]
Ended(en, name, ok) ==
    [en EXCEPT ![name] = IF ok THEN [@ EXCEPT !.ok = @ + 1] ELSE [@ EXCEPT !.exc = @ + 1]]

\* A faulty variant: an update_stats that counts no call
UpdateStats_NoCount(st, name, n) ==
    [st EXCEPT ![name] = [count |-> st[name].count,
                          number_items |-> IF n > 0 THEN st[name].number_items + n
                                           ELSE st[name].number_items]]

\* update_stats(method_name, duration, number_results); the times are left out
UpdateStats(st, name, n) ==
    [st EXCEPT ![name] = [count |-> st[name].count + 1,
                          number_items |-> IF n > 0 THEN st[name].number_items + n
                                           ELSE st[name].number_items]]

VARIABLES
    ppc,      \* where the proxy is: "idle", "poll" (in wait_for_it, about to
              \* call job_status), "sleep" (in time.sleep)
    pname,    \* the operation present was called for
    pjob,     \* wait_for_it's job
    pitem,    \* wait_for_it's item
    jobs,     \* the plug-in's jobs, by handle number
    results,  \* the module's results: operation -> the rc of each entry
    stats,    \* the module's stats: operation -> count, number_items
    pout,     \* history: how the last call of present ended
    ended,    \* history: operation -> the calls of present that returned, raised
    ops       \* calls of present made so far

pvars == <<ppc, pname, pjob, pitem, jobs, results, stats, pout, ended, ops>>

\* history of a call of present: kind "returned" (val) or "raised" (exc);
\* rc is what the wrapped method returned, job the handle waited for, wait
\* how wait_for_it ended ("none": not called, "direct": without a job,
\* "returned", "raised"), witem what it returned
POut(kind, name, val, exc, rc, job, wait, witem) ==
    [kind |-> kind, name |-> name, val |-> val, exc |-> exc, rc |-> rc,
     job |-> job, wait |-> wait, witem |-> witem]

InitProxy ==
    /\ ppc = "idle" /\ pname = "" /\ pjob = None /\ pitem = None
    /\ jobs = <<>>
    /\ results = [n \in ResultNames |-> <<>>]
    /\ stats = [n \in ResultNames |-> NoStats]
    /\ ended = [n \in ResultNames |-> NoEnded]
    /\ pout = POut("none", "", Scalar(None), "none", Scalar(None), None, "none", None)
    /\ ops = 0

\* present after its timer block, rc being the value in hand, st the stats
\* and en the ended calls so far: the fix-up, update_stats, return
ProxyFinish(st, en, name, rc, wrapped, job, wait, witem) ==
    \E fix \in {FixUp(name, rc)} :
        /\ ppc' = "idle" /\ pjob' = None /\ pitem' = None
        /\ ended' = Ended(en, name, fix.exc = "none")
        /\ IF fix.exc # "none"
           THEN /\ pout' = POut("raised", name, Scalar(None), fix.exc, wrapped, job, wait, witem)
                /\ stats' = st
           ELSE /\ pout' = POut("returned", name, fix.rc, "none", wrapped, job, wait, witem)
                /\ stats' = UpdateStats(st, name, NumResults(name, fix.rc))

\* TestProxy.present(name, ...): the wrapped method does out; plan is the
\* course of the job it starts, if it starts one
Present(name, out, plan) ==
    /\ ppc = "idle" /\ ops < MaxOps
    /\ ops' = ops + 1
    /\ pname' = name
    /\ results' = RecordResult(results, name, ~out.exc)
    /\ jobs' = IF out.job THEN Append(jobs, Job(plan.left, plan.fate, JobItem(name))) ELSE jobs
    /\ IF out.exc
       THEN /\ pout' = POut("raised", name, Scalar(None), "LsmError", Scalar(None), None,
                            "none", None)
            /\ ended' = Ended(ended, name, FALSE)
            /\ UNCHANGED <<ppc, pjob, pitem, stats>>
       ELSE IF WaitsForIt(name, out.rc)
       THEN \E t \in {AsTuple(out.rc)} :
                IF WaitNoJob(t.a)
                THEN ProxyFinish(stats, ended, name, Scalar(t.b), out.rc, None, "direct", t.b)
                ELSE /\ ppc' = "poll" /\ pjob' = t.a /\ pitem' = t.b
                     /\ pout' = POut("none", name, Scalar(None), "none", out.rc, t.a, "none", None)
                     /\ UNCHANGED <<stats, ended>>
       ELSE ProxyFinish(stats, ended, name, out.rc, out.rc, None, "none", None)

\* wait_for_it: one pass of the loop.  job_status and job_free are called
\* through the proxy, so each adds to results and stats; a job_status call
\* that raises leaves wait_for_it and present with its exception.
JobStatus ==
    /\ ppc = "poll"
    /\ \E h \in {pjob[2]} :
       \E reply \in {JobStatusReply(jobs[h])} :
       \E polled \in {[jobs EXCEPT ![h].left = IF @ > 0 THEN @ - 1 ELSE 0,
                                   ![h].polls = @ + 1]} :
       \E st \in {UpdateStats(stats, "job_status", JobStatusItems)} :
       \E en \in {Ended(ended, "job_status", TRUE)} :
       \E br \in {WaitBranch(reply[1])} :
           IF JobStatusFails(jobs[h])
           THEN /\ jobs' = polled
                /\ results' = RecordResult(results, "job_status", FALSE)
                /\ ended' = Ended(Ended(ended, "job_status", FALSE), pname, FALSE)
                /\ ppc' = "idle" /\ pjob' = None /\ pitem' = None
                /\ pout' = POut("raised", pname, Scalar(None), "LsmError", pout.rc, pjob,
                                "failed", None)
                /\ UNCHANGED stats
           ELSE IF br = "sleep"
           THEN /\ ppc' = "sleep"
                /\ jobs' = polled
                /\ results' = RecordResult(results, "job_status", TRUE)
                /\ stats' = st
                /\ ended' = en
                /\ UNCHANGED <<pjob, pitem, pout>>
           ELSE IF br = "free_return"
           THEN /\ jobs' = [polled EXCEPT ![h].frees = @ + 1]
                /\ results' = RecordResult(RecordResult(results, "job_status", TRUE),
                                           "job_free", TRUE)
                /\ \E i \in {WaitReturn(reply[3], pitem)} :
                       ProxyFinish(UpdateStats(st, "job_free", 0), Ended(en, "job_free", TRUE),
                                   pname, Scalar(i), pout.rc, pjob, "returned", i)
           ELSE /\ jobs' = polled
                /\ results' = RecordResult(results, "job_status", TRUE)
                /\ stats' = st
                /\ ended' = Ended(en, pname, FALSE)
                /\ ppc' = "idle" /\ pjob' = None /\ pitem' = None
                /\ pout' = POut("raised", pname, Scalar(None), "Exception", pout.rc, pjob,
                                "raised", None)
    /\ UNCHANGED <<pname, ops>>

\* wait_for_it: time.sleep(0.25) returns
SleepOver ==
    /\ ppc = "sleep"
    /\ ppc' = "poll"
    /\ UNCHANGED <<pname, pjob, pitem, jobs, results, stats, pout, ended, ops>>

(***************************************************************************)
(* The plug-in interface (IPlugin, IStorageAreaNetwork,                     *)
(* INetworkAttachedStorage, INfs) and a plug-in behind one connection.      *)
(***************************************************************************)
\* the methods IStorageAreaNetwork defines
SanOps ==
    {"pool_create", "pool_create_from_disks", "pool_create_from_volumes",
     "pool_create_from_pool", "volumes", "initiators", "volume_create",
     "volume_delete", "volume_resize", "volume_replicate",
     "volume_replicate_range_block_size", "volume_replicate_range",
     "volume_online", "volume_offline", "iscsi_chap_auth",
     "initiator_grant", "initiator_revoke", "access_group_grant",
     "access_group_revoke", "access_group_list", "access_group_create",
     "access_group_del", "access_group_add_initiator",
     "access_group_del_initiator", "volumes_accessible_by_access_group",
     "access_groups_granted_to_volume", "volume_child_dependency",
     "volume_child_dependency_rm", "volumes_accessible_by_initiator",
     "initiators_granted_to_volume"}
\* the methods INetworkAttachedStorage defines
NasOps ==
    {"fs", "fs_delete", "fs_resize", "fs_create", "fs_clone",
     "file_clone", "fs_snapshots", "fs_snapshot_create",
     "fs_snapshot_delete", "fs_snapshot_revert", "fs_child_dependency",
     "fs_child_dependency_rm"}
\* the methods INfs defines
NfsOps ==
    {"export_auth", "exports", "export_fs", "export_remove"}
\* the capability-gated surface
GatedOps == SanOps \cup NasOps \cup NfsOps

\* what a call of a plug-in method ends with: it returned val, or raised
\* LsmError with code
Returned(val) == [kind |-> "returned", code |-> "", val |-> val]
Failed(code) == [kind |-> "LsmError", code |-> code, val |-> None]
NotRun == [kind |-> "none", code |-> "", val |-> None]

\* The default implementation of a gated method, whatever its arguments:
\* "raise LsmError(ErrorNumber.NO_SUPPORT, ...)"; the body of
\* INetworkAttachedStorage.fs is "pass"
DefaultImpl(op) ==
    IF op = "fs" THEN Returned(None) ELSE Failed("NO_SUPPORT")

\* the systems a plug-in manages
Systems == 1..MaxSystems

\* the gated methods the plug-ins of the model may override
Overridable == {"volume_replicate_range_block_size", "fs"}

\* what an overridden method does on a system: on a system that supports
\* the operation it succeeds or fails with another error
OverrideOutcomes(op, supported) ==
    IF supported THEN {Returned(Vol), Failed("PLUGIN_ERROR")}
    ELSE {Failed("NO_SUPPORT")}

\* what a gated method of a plug-in does: the override, or the inherited
\* default implementation
GatedOutcomes(op, impl, supported) ==
    IF op \in impl THEN OverrideOutcomes(op, supported) ELSE {DefaultImpl(op)}

\* capabilities(system): the operations reported as supported
Capabilities(caps, s) == caps[s]

\* the calls a client makes: the gated methods and plugin_info
CallOps == GatedOps \cup {"plugin_info"}

\* A faulty variant: a connection that takes every call at any time
Accepts_Always(op, c) == TRUE

\* IPlugin.startup / shutdown / plugin_info: whether a call of op is valid
\* on a connection in state c ("new", "started", "shutdown")
Accepts(op, c) == op = "plugin_info" \/ c = "started"

VARIABLES
    impl,     \* the gated methods the plug-in overrides
    caps,     \* system -> the operations the plug-in supports on it
    conn,     \* the connection: "new", "started" (startup succeeded), "shutdown"
    icall     \* history: the last call made on the connection

ivars == <<impl, caps, conn, icall>>

ICall(op, s, c, accepted, out) ==
    [op |-> op, sys |-> s, conn |-> c, accepted |-> accepted, out |-> out]

NoICall == ICall("", 1, "new", FALSE, NotRun)

IfaceUnused == impl = {} /\ caps = [s \in Systems |-> {}] /\ conn = "new" /\ icall = NoICall

\* every plug-in of the model: what it overrides and what it supports where
InitIface ==
    /\ impl \in SUBSET Overridable
    /\ caps \in [Systems -> SUBSET impl]
    /\ conn = "new"
    /\ icall = NoICall

\* startup(uri, password, timeout): it succeeds, or raises LsmError
Startup(ok) ==
    /\ conn = "new"
    /\ conn' = IF ok THEN "started" ELSE "new"
    /\ icall' = ICall("startup", 1, conn, TRUE, IF ok THEN Returned(None) ELSE Failed("PLUGIN_ERROR"))
    /\ UNCHANGED <<impl, caps>>

\* shutdown()
Shutdown ==
    /\ conn = "started"
    /\ conn' = "shutdown"
    /\ icall' = ICall("shutdown", 1, conn, TRUE, Returned(None))
    /\ UNCHANGED <<impl, caps>>

\* a call of op on system s: it is turned away, or the method runs
Invoke(op, s) ==
    /\ IF Accepts(op, conn)
       THEN \E out \in (IF op = "plugin_info" THEN {Returned(Vol)}
                        ELSE GatedOutcomes(op, impl, op \in Capabilities(caps, s))) :
                icall' = ICall(op, s, conn, TRUE, out)
       ELSE icall' = ICall(op, s, conn, FALSE, NotRun)
    /\ UNCHANGED <<impl, caps, conn>>

(***************************************************************************)
(* Several threads that write to one Transport.  Transport holds no lock,   *)
(* and sendall is a loop of send calls, each of which may write only a      *)
(* part of what is left.                                                    *)
(***************************************************************************)
Writers == 1..MaxWriters

\* the numbers of bytes one send of sendall may write of the n that are left,
\* after sends partial sends: all of them, or a few when the buffer is short
SendCounts(n, sends) ==
    {k \in 1..n : k = n \/ (sends < MaxPartialSends /\ k <= MaxChunk)}

VARIABLES
    wire,     \* the stream the writers share: each byte with its writer
    wleft,    \* writer -> the bytes its sendall has still to write
    wsends,   \* writer -> the sends its sendall has made
    wframe    \* history: writer -> the frame it was to write

wvars == <<wire, wleft, wsends, wframe>>

\* the bytes bs as written by writer w
Tagged(w, bs) == [i \in 1..Len(bs) |-> [w |-> w, b |-> bs[i]]]

WritersUnused ==
    /\ wire = <<>>
    /\ wleft = [w \in Writers |-> <<>>]
    /\ wsends = [w \in Writers |-> 0]
    /\ wframe = [w \in Writers |-> <<>>]

\* thread w calls send_req(method, args): __sendMsg builds the frame and
\* sendall makes its first send
WriterSendReq(w, req) ==
    /\ wframe[w] = <<>>
    /\ \E frame \in {SendMsg(JsonDumps(ReqMsg(req.method, req.params)))} :
       \E k \in SendCounts(Len(frame), 0) :
           /\ wframe' = [wframe EXCEPT ![w] = frame]
           /\ wire' = wire \o Tagged(w, SubSeq(frame, 1, k))
           /\ wleft' = [wleft EXCEPT ![w] = SubSeq(frame, k + 1, Len(frame))]
           /\ wsends' = [wsends EXCEPT ![w] = 1]

\* sendall of thread w: the next send
WriterSend(w) ==
    /\ wleft[w] # <<>>
    /\ \E k \in SendCounts(Len(wleft[w]), wsends[w]) :
           /\ wire' = wire \o Tagged(w, SubSeq(wleft[w], 1, k))
           /\ wleft' = [wleft EXCEPT ![w] = SubSeq(wleft[w], k + 1, Len(wleft[w]))]
           /\ wsends' = [wsends EXCEPT ![w] = @ + 1]
    /\ UNCHANGED wframe

(***************************************************************************)
(* The plug-in's job registry behind job_status and job_free.               *)
(***************************************************************************)
\* the handles a client may pass: those of the jobs, and one never issued
Handles == 1..(MaxJobs + 1)

\* the registry keeps a status for each job it holds; "absent": no entry
JobStates == {"INPROGRESS", "COMPLETE", "ERROR"}

NotFound == [kind |-> "not-found", status |-> ""]
Found(status) == [kind |-> "returned", status |-> status]

\* job_status(handle): not-found if the handle is unknown or already freed
RegStatus(reg, h) == IF reg[h] = "absent" THEN NotFound ELSE Found(reg[h])

\* A faulty variant: a job_free that keeps the entry of a job in progress
RegFree_KeepsRunning(reg, h) ==
    IF reg[h] = "INPROGRESS" THEN reg ELSE [reg EXCEPT ![h] = "absent"]

\* job_free(handle): the registry's storage for the job is released
RegFree(reg, h) == [reg EXCEPT ![h] = "absent"]

VARIABLES
    registry, \* handle -> the status of its entry, or "absent"
    issued,   \* the handles 1..issued have been given out
    freedAs,  \* history: handle -> the status it was freed in ("": not freed)
    jres      \* history: the last job_status or job_free call

rvars == <<registry, issued, freedAs, jres>>

\* a job_status or job_free call on h that ended in out; wasIssued and
\* wasFreed say what had happened to h before the call
JRes(op, h, out, wasIssued, wasFreed) ==
    [op |-> op, h |-> h, out |-> out, wasIssued |-> wasIssued, wasFreed |-> wasFreed]

RegistryUnused ==
    /\ registry = [h \in Handles |-> "absent"]
    /\ issued = 0
    /\ freedAs = [h \in Handles |-> ""]
    /\ jres = JRes("", 1, NotFound, FALSE, FALSE)

\* an operation starts a job: a handle that was never used before
JobCreate ==
    /\ issued < MaxJobs
    /\ issued' = issued + 1
    /\ registry' = [registry EXCEPT ![issued + 1] = "INPROGRESS"]
    /\ UNCHANGED <<freedAs, jres>>

\* the executor ends a job that is held: INPROGRESS -> COMPLETE or ERROR
JobEnd(h, s) ==
    /\ registry[h] = "INPROGRESS"
    /\ registry' = [registry EXCEPT ![h] = s]
    /\ UNCHANGED <<issued, freedAs, jres>>

\* job_status(h)
RegJobStatus(h) ==
    /\ jres' = JRes("job_status", h, RegStatus(registry, h), h <= issued, freedAs[h] # "")
    /\ UNCHANGED <<registry, issued, freedAs>>

\* job_free(h)
RegJobFree(h) ==
    /\ \E st \in {RegStatus(registry, h)} :
           IF st.kind = "not-found"
           THEN /\ jres' = JRes("job_free", h, NotFound, h <= issued, freedAs[h] # "")
                /\ UNCHANGED <<registry, freedAs>>
           ELSE /\ registry' = RegFree(registry, h)
                /\ freedAs' = [freedAs EXCEPT ![h] = st.status]
                /\ jres' = JRes("job_free", h, Found(st.status), TRUE, FALSE)
    /\ UNCHANGED issued

(***************************************************************************)
(* The HP SmartArray plug-in's helper: cmd_exec runs a command and reads    *)
(* its output from two pipes.                                               *)
(***************************************************************************)
\* the characters str.strip() takes off both ends (those a child writes here)
Whitespace == {" ", "\n"}

RECURSIVE StripLeft(_)
StripLeft(s) == IF s # <<>> /\ Head(s) \in Whitespace THEN StripLeft(Tail(s)) ELSE s

RECURSIVE StripRight(_)
StripRight(s) ==
    IF s # <<>> /\ s[Len(s)] \in Whitespace THEN StripRight(SubSeq(s, 1, Len(s) - 1)) ELSE s

\* str.strip()
PyStrip(s) == StripRight(StripLeft(s))

\* list(file): the lines of what was read, each with its newline; cur is
\* the line being collected
RECURSIVE FileLines(_, _)
FileLines(s, cur) ==
    IF s = <<>> THEN (IF cur = <<>> THEN <<>> ELSE <<cur>>)
    ELSE IF Head(s) = "\n" THEN <<cur \o <<"\n">> >> \o FileLines(Tail(s), <<>>)
    ELSE FileLines(Tail(s), cur \o <<Head(s)>>)

\* sep.join(parts)
RECURSIVE Join(_, _)
Join(sep, parts) ==
    IF parts = <<>> THEN <<>>
    ELSE IF Len(parts) = 1 THEN Head(parts)
    ELSE Head(parts) \o sep \o Join(sep, Tail(parts))

\* "".join(list(pipe)).strip() on the bytes read from a pipe up to its end
Captured(read) == PyStrip(Join(<<>>, FileLines(read, <<>>)))

\* A faulty variant: a test that takes the death by a signal for success
ExitFailed_Positive(errno) == errno > 0

\* cmd_exec's test "errno != 0"
ExitFailed(errno) == errno # 0

\* the commands run, the exit codes of a child (-9: killed by a signal) and
\* the texts a child writes with one write call
Commands == {<< <<"l", "s">> >>, << <<"h", "p">>, <<"-", "v">> >>}
ExitCodes == {0, 1, -9}
Texts == {<<"a">>, <<"\n">>, <<" ", "a">>, <<"a", "\n">>}
Streams == {"stdout", "stderr"}

RECURSIVE SeqsUpTo(_, _)
SeqsUpTo(S, n) ==
    IF n = 0 THEN {<<>>}
    ELSE LET shorter == SeqsUpTo(S, n - 1)
         IN  shorter \cup {Append(q, x) : q \in shorter, x \in S}

\* a child: the write calls it makes, in their order, and its exit code
Children ==
    {[writes |-> w, code |-> c] :
        w \in SeqsUpTo({[to |-> s, text |-> t] : s \in Streams, t \in Texts}, MaxWrites),
        c \in ExitCodes}

\* the bytes a child has to write, one after the other, each with its stream
RECURSIVE ChildBytes(_)
ChildBytes(writes) ==
    IF writes = <<>> THEN <<>>
    ELSE [i \in 1..Len(Head(writes).text) |-> [to |-> Head(writes).to, ch |-> Head(writes).text[i]]]
         \o ChildBytes(Tail(writes))

\* all a child writes to one stream
RECURSIVE WrittenTo(_, _)
WrittenTo(writes, stream) ==
    IF writes = <<>> THEN <<>>
    ELSE (IF Head(writes).to = stream THEN Head(writes).text ELSE <<>>)
         \o WrittenTo(Tail(writes), stream)

VARIABLES
    xpc,      \* where cmd_exec is: "idle", "stdout", "stderr", "wait", "done"
    xcmds,    \* cmd_exec's argument
    child,    \* history: the child that was started
    todo,     \* the bytes the child has still to write
    alive,    \* the child runs (its ends of the pipes are open)
    outPipe,  \* the bytes in the stdout pipe
    errPipe,  \* the bytes in the stderr pipe
    outRead,  \* what cmd_exec has read from stdout
    errRead,  \* what cmd_exec has read from stderr
    xres      \* how cmd_exec ended

xvars == <<xpc, xcmds, child, todo, alive, outPipe, errPipe, outRead, errRead, xres>>

XRes(kind, val, cmd, errno, stdout, stderr) ==
    [kind |-> kind, val |-> val, cmd |-> cmd, errno |-> errno, stdout |-> stdout,
     stderr |-> stderr]

NoChild == [writes |-> <<>>, code |-> 0]

ExecUnused ==
    /\ xpc = "idle" /\ xcmds = <<>> /\ child = NoChild /\ todo = <<>> /\ alive = FALSE
    /\ outPipe = <<>> /\ errPipe = <<>> /\ outRead = <<>> /\ errRead = <<>>
    /\ xres = XRes("none", <<>>, <<>>, 0, <<>>, <<>>)

\* cmd_exec(cmds): subprocess.Popen starts the child c with two pipes
CmdExec(cmds, c) ==
    /\ xpc = "idle"
    /\ xpc' = "stdout"
    /\ xcmds' = cmds
    /\ child' = c
    /\ todo' = ChildBytes(c.writes)
    /\ alive' = TRUE
    /\ UNCHANGED <<outPipe, errPipe, outRead, errRead, xres>>

\* cmd_exec(cmds) for a command that cannot be started: Popen raises OSError
CmdExecNoChild(cmds) ==
    /\ xpc = "idle"
    /\ xpc' = "done"
    /\ xcmds' = cmds
    /\ xres' = XRes("OSError", <<>>, <<>>, 0, <<>>, <<>>)
    /\ UNCHANGED <<child, todo, alive, outPipe, errPipe, outRead, errRead>>

\* the child writes its next byte: a write to a pipe that is full blocks
ChildWrite ==
    /\ alive /\ todo # <<>>
    /\ IF Head(todo).to = "stdout"
       THEN /\ Len(outPipe) < PipeCap
            /\ outPipe' = Append(outPipe, Head(todo).ch)
            /\ UNCHANGED errPipe
       ELSE /\ Len(errPipe) < PipeCap
            /\ errPipe' = Append(errPipe, Head(todo).ch)
            /\ UNCHANGED outPipe
    /\ todo' = Tail(todo)
    /\ UNCHANGED <<xpc, xcmds, child, alive, outRead, errRead, xres>>

\* the child has written all it had to and exits: its ends of the pipes close
ChildExit ==
    /\ alive /\ todo = <<>>
    /\ alive' = FALSE
    /\ UNCHANGED <<xpc, xcmds, child, todo, outPipe, errPipe, outRead, errRead, xres>>

\* list(cmd_popen.stdout): a read takes what is in the pipe
ReadStdout ==
    /\ xpc = "stdout" /\ outPipe # <<>>
    /\ outRead' = outRead \o outPipe
    /\ outPipe' = <<>>
    /\ UNCHANGED <<xpc, xcmds, child, todo, alive, errPipe, errRead, xres>>

\* ... and ends when the pipe is empty and closed; stderr is read next
StdoutEOF ==
    /\ xpc = "stdout" /\ outPipe = <<>> /\ ~alive
    /\ xpc' = "stderr"
    /\ UNCHANGED <<xcmds, child, todo, alive, outPipe, errPipe, outRead, errRead, xres>>

\* list(cmd_popen.stderr)
ReadStderr ==
    /\ xpc = "stderr" /\ errPipe # <<>>
    /\ errRead' = errRead \o errPipe
    /\ errPipe' = <<>>
    /\ UNCHANGED <<xpc, xcmds, child, todo, alive, outPipe, outRead, xres>>

StderrEOF ==
    /\ xpc = "stderr" /\ errPipe = <<>> /\ ~alive
    /\ xpc' = "wait"
    /\ UNCHANGED <<xcmds, child, todo, alive, outPipe, errPipe, outRead, errRead, xres>>

\* cmd_popen.wait() returns the exit code; cmd_exec raises or returns
WaitChild ==
    /\ xpc = "wait" /\ ~alive
    /\ xpc' = "done"
    /\ xres' = IF ExitFailed(child.code)
               THEN XRes("ExecError", <<>>, Join(<<" ">>, xcmds), child.code,
                         Captured(outRead), Captured(errRead))
               ELSE XRes("returned", Captured(outRead), <<>>, child.code, <<>>, <<>>)
    /\ UNCHANGED <<xcmds, child, todo, alive, outPipe, errPipe, outRead, errRead>>

(***************************************************************************)
(* Specifications.                                                          *)
(***************************************************************************)
vars == <<tvars, hvars, pvars, ivars, wvars, rvars, xvars>>

\* the variables a specification of one part leaves alone
notTransport == <<hvars, pvars, ivars, wvars, rvars, xvars>>
notHeader == <<tvars, pvars, ivars, wvars, rvars, xvars>>
notProxy == <<tvars, hvars, ivars, wvars, rvars, xvars>>
notIface == <<tvars, hvars, pvars, wvars, rvars, xvars>>
notWriters == <<tvars, hvars, pvars, ivars, rvars, xvars>>
notRegistry == <<tvars, hvars, pvars, ivars, wvars, xvars>>
notExec == <<tvars, hvars, pvars, ivars, wvars, rvars>>

\* __sendMsg on a length alone is not exercised
HdrUnused == hIn = [isNone |-> TRUE, len |-> <<"0">>] /\ hOut = HdrIdle

\* Two Transports over a socket pair: the echo server (and a peer that
\* answers with an id of its own), and a client that, as the test cases of
\* TestTransport do, writes a request only when no reply is outstanding and
\* makes no call after it has closed.
Init == InitTransport /\ HdrUnused /\ InitProxy /\ IfaceUnused /\ WritersUnused /\ RegistryUnused /\ ExecUnused

Next ==
    \/ \E req \in Requests : pending = 0 /\ ~cclosed /\ SendReq(req) /\ UNCHANGED notTransport
    \/ \E req \in Requests : pending = 0 /\ ~cclosed /\ Rpc(req) /\ UNCHANGED notTransport
    \/ ~cclosed /\ ReadResp /\ UNCHANGED notTransport
    \/ \E l \in 1..MaxDripLen : pending = 0 /\ DripStart(l) /\ UNCHANGED notTransport
    \/ DripByte /\ UNCHANGED notTransport
    \/ ~cclosed /\ ClientClose /\ UNCHANGED notTransport
    \/ ClientRecv /\ UNCHANGED notTransport
    \/ ClientRecvEOF /\ UNCHANGED notTransport
    \/ ServerRecv /\ UNCHANGED notTransport
    \/ ServerRecvEOF /\ UNCHANGED notTransport
    \/ \E id \in RespIds \ {FIXED_ID} : PeerRecvReplyId(id) /\ UNCHANGED notTransport

Spec == Init /\ [][Next]_vars

\* The same two Transports with a client that calls send_req, rpc,
\* read_resp and close in any order.
ApiRequests == {Req(M_test, VStr(<<" ">>)), Req(M_done, VNull)}

NextApi ==
    \/ \E req \in ApiRequests : SendReq(req) /\ UNCHANGED notTransport
    \/ \E req \in ApiRequests : Rpc(req) /\ UNCHANGED notTransport
    \/ ReadResp /\ UNCHANGED notTransport
    \/ ClientClose /\ UNCHANGED notTransport
    \/ ClientRecv /\ UNCHANGED notTransport
    \/ ClientRecvEOF /\ UNCHANGED notTransport
    \/ ServerRecv /\ UNCHANGED notTransport
    \/ ServerRecvEOF /\ UNCHANGED notTransport

SpecApi == Init /\ [][NextApi]_vars

\* __sendMsg alone, on messages of every length of LenReprs
InitHdr ==
    /\ InitTransport /\ InitProxy /\ IfaceUnused /\ WritersUnused /\ RegistryUnused /\ ExecUnused
    /\ hIn \in HdrInputs /\ hOut = HdrIdle

NextHdr == SendMsgLen /\ UNCHANGED notHeader

SpecHdr == InitHdr /\ [][NextHdr]_vars

\* The test proxy over a plug-in: calls of present, one after the other
InitPoll == InitTransport /\ HdrUnused /\ InitProxy /\ IfaceUnused /\ WritersUnused /\ RegistryUnused /\ ExecUnused

NextPoll ==
    \/ \E name \in ProxyNames :
       \E out \in PluginOutcomes(name, JobId(Len(jobs) + 1)) :
       \E plan \in JobPlans :
           Present(name, out, plan) /\ UNCHANGED notProxy
    \/ JobStatus /\ UNCHANGED notProxy
    \/ SleepOver /\ UNCHANGED notProxy

SpecPoll == InitPoll /\ [][NextPoll]_vars

\* ... where the proxy's thread keeps running: a job_status call returns and
\* a sleep ends
SpecPollFair == SpecPoll /\ WF_pvars(JobStatus) /\ WF_pvars(SleepOver)

\* One connection to a plug-in: startup, calls, shutdown
InitPlugin == InitTransport /\ HdrUnused /\ InitProxy /\ InitIface /\ WritersUnused /\ RegistryUnused /\ ExecUnused

NextPlugin ==
    \/ \E ok \in BOOLEAN : Startup(ok) /\ UNCHANGED notIface
    \/ Shutdown /\ UNCHANGED notIface
    \/ \E op \in CallOps : \E s \in Systems : Invoke(op, s) /\ UNCHANGED notIface

SpecPlugin == InitPlugin /\ [][NextPlugin]_vars

\* The two Transports with ends that also write bytes of their own and
\* close at any time; the client makes no call after it has closed
NextRaw ==
    \/ \E req \in {Req(M_done, VNull)} : ~cclosed /\ pending = 0 /\ Rpc(req) /\ UNCHANGED notTransport
    \/ ~cclosed /\ ReadResp /\ UNCHANGED notTransport
    \/ \E raw \in RawInputs : cs = <<>> /\ ClientRawSend(raw) /\ UNCHANGED notTransport
    \/ \E raw \in RawInputs : PeerRawSend(raw) /\ UNCHANGED notTransport
    \/ PeerClose /\ UNCHANGED notTransport
    \/ ~cclosed /\ ClientClose /\ UNCHANGED notTransport
    \/ ClientRecv /\ UNCHANGED notTransport
    \/ ClientRecvEOF /\ UNCHANGED notTransport
    \/ ServerRecv /\ UNCHANGED notTransport
    \/ ServerRecvEOF /\ UNCHANGED notTransport

SpecRaw == Init /\ [][NextRaw]_vars

\* Threads that call send_req on one Transport, each once
NextWriters ==
    \/ \E w \in Writers : \E req \in Requests : WriterSendReq(w, req) /\ UNCHANGED notWriters
    \/ \E w \in Writers : WriterSend(w) /\ UNCHANGED notWriters

SpecWriters == Init /\ [][NextWriters]_vars

\* A plug-in's registry: jobs are started and end, and a client calls
\* job_status and job_free with any handle at any time
NextRegistry ==
    \/ JobCreate /\ UNCHANGED notRegistry
    \/ \E h \in Handles : \E s \in {"COMPLETE", "ERROR"} : JobEnd(h, s) /\ UNCHANGED notRegistry
    \/ \E h \in Handles : RegJobStatus(h) /\ UNCHANGED notRegistry
    \/ \E h \in Handles : RegJobFree(h) /\ UNCHANGED notRegistry

SpecRegistry == Init /\ [][NextRegistry]_vars

\* One call of cmd_exec and the child it starts
NextExec ==
    \/ \E cmds \in Commands : \E c \in Children : CmdExec(cmds, c) /\ UNCHANGED notExec
    \/ \E cmds \in Commands : CmdExecNoChild(cmds) /\ UNCHANGED notExec
    \/ ChildWrite /\ UNCHANGED notExec
    \/ ChildExit /\ UNCHANGED notExec
    \/ ReadStdout /\ UNCHANGED notExec
    \/ StdoutEOF /\ UNCHANGED notExec
    \/ ReadStderr /\ UNCHANGED notExec
    \/ StderrEOF /\ UNCHANGED notExec
    \/ WaitChild /\ UNCHANGED notExec

SpecExec == Init /\ [][NextExec]_vars

\* ... where the child and cmd_exec keep running as long as they can
SpecExecFair ==
    /\ SpecExec
    /\ WF_xvars(ChildWrite) /\ WF_xvars(ChildExit)
    /\ WF_xvars(ReadStdout) /\ WF_xvars(StdoutEOF)
    /\ WF_xvars(ReadStderr) /\ WF_xvars(StderrEOF) /\ WF_xvars(WaitChild)

(***************************************************************************)
(* The claims.                                                              *)
(***************************************************************************)
\* a decimal text without its leading zeros
RECURSIVE Unpadded(_)
Unpadded(s) == IF Len(s) > 1 /\ Head(s) = "0" THEN Unpadded(Tail(s)) ELSE s

\* C1: every frame __sendMsg writes starts with exactly HDR_LEN decimal
\* digits, zero padded on the left, whose value is the length of the payload,
\* for every length the sender accepts.
C1_HeaderTenDigits ==
    hOut.kind = "sent" =>
        /\ Len(hOut.hdr) = HDR_LEN
        /\ \A i \in 1..Len(hOut.hdr) : hOut.hdr[i] \in DigitSet
        /\ Unpadded(hOut.hdr) = hIn.len

\* C2: frame round trip.  What read_req returns is the dict send_req was
\* given, and a reply the echo server sent with send_resp(p) is delivered by
\* read_resp (alone or in rpc) as (p, 100), p being the params of the request
\* as the client passed them.
C2_RoundTrip ==
    /\ sres.kind \in {"ok", "done"} =>
           sres.msg = ReqMsg(sres.frame.method, sres.frame.params)
    /\ (cres.got >= 0 /\ cres.frame.kind = "resp" /\ cres.frame.id = VInt(FIXED_ID)) =>
           /\ cres.kind = "ok"
           /\ cres.val = cres.frame.req.params
           /\ cres.id = VInt(FIXED_ID)

C2_Witness ==
    /\ cres.op = "read_resp" /\ cres.kind = "ok"
    /\ cres.val = VStr(<<"{", "}", ":", "\"", "\"">>)
    /\ cres.id = VInt(FIXED_ID)
    /\ cres.frame.req.method = M_test

\* C3: however recv splits a frame, the receiver hands the decoder all the
\* declared bytes and nothing less, and read_req / read_resp get the message
\* that was sent (rpc may still reject the id of what read_resp returned).
C3_FullyBuffered ==
    /\ sres.got >= 0 =>
           /\ sres.got = sres.n
           /\ sres.kind # "ValueError"
           /\ sres.msg = ReqMsg(sres.frame.method, sres.frame.params)
    /\ cres.got >= 0 =>
           /\ cres.got = cres.n
           /\ cres.kind # "ValueError"
           /\ cres.frame.kind = "resp" =>
                  /\ cres.id = cres.frame.id
                  /\ cres.op = "read_resp" => cres.kind = "ok"
                  /\ cres.kind = "ok" => cres.val = cres.frame.val
           /\ cres.frame.kind = "error" =>
                  cres.code = cres.frame.code /\ cres.msg = cres.frame.msg

\* the server has read a request that was written one byte at a time
C3_Witness ==
    /\ sres.frame.method = M_drip /\ sres.kind = "ok"
    /\ sres.got = sres.n /\ sres.n > HDR_LEN
    /\ sres.msg = ReqMsg(M_drip, VStr(<<"x">>))

\* C4: a recv that returns no byte, in the header or in the body, makes
\* read_req / read_resp fail with SocketEOF and with nothing else.
C4_EofIsSocketEOF ==
    /\ sres.eof => sres.kind = "SocketEOF"
    /\ cres.eof => cres.kind = "SocketEOF"

\* the client closed in the middle of a frame: the server's EOF in the body
C4_Witness == sres.eof /\ sres.kind = "SocketEOF" /\ sres.n > HDR_LEN

\* C5: after send_error(id, c, m) the read_resp (alone or in rpc) that reads
\* the frame raises LsmError with code c and msg m, and returns no result.
C5_FaultFidelity ==
    (cres.got >= 0 /\ cres.frame.kind = "error") =>
        /\ cres.kind = "LsmError"
        /\ cres.code = cres.frame.code
        /\ cres.msg = cres.frame.msg
        /\ cres.val = VNull

C5_Witness ==
    /\ cres.op = "read_resp" /\ cres.kind = "LsmError"
    /\ cres.code = VInt(2) /\ cres.msg = VStr(<<"\\", "\"">>)

\* C6 as stated: rpc writes one request frame and reads one reply frame; a
\* fault is raised as LsmError, any other reply's result is returned unchanged.
C6_RpcReturnsResult ==
    (cres.op = "rpc" /\ cres.got >= 0) =>
        /\ cres.sent = 1
        /\ cres.frame.kind = "error" =>
               cres.kind = "LsmError" /\ cres.code = cres.frame.code /\ cres.msg = cres.frame.msg
        /\ cres.frame.kind = "resp" => cres.kind = "ok" /\ cres.val = cres.frame.val

\* C6 as amended: ... a reply that is not a fault and carries the id 100 has
\* its result returned unchanged; with another id rpc fails its assertion.
C6_RpcReturnsResultOfId100 ==
    (cres.op = "rpc" /\ cres.got >= 0) =>
        /\ cres.sent = 1
        /\ cres.frame.kind = "error" =>
               cres.kind = "LsmError" /\ cres.code = cres.frame.code /\ cres.msg = cres.frame.msg
        /\ (cres.frame.kind = "resp" /\ cres.frame.id = VInt(FIXED_ID)) =>
               cres.kind = "ok" /\ cres.val = cres.frame.val
        /\ (cres.frame.kind = "resp" /\ cres.frame.id # VInt(FIXED_ID)) =>
               cres.kind = "AssertionError"

C6_Witness ==
    /\ cres.op = "rpc" /\ cres.kind = "ok" /\ cres.val = VObj(<<>>)
    /\ cres.sent = 1 /\ cres.frame.id = VInt(FIXED_ID)

\* C7 as stated: no second request frame is put on the stream before the
\* reply to the previous request has been received.
C7_Alternation == pending <= 1

\* C7 as amended: send_req itself never refuses; on a Transport used through
\* rpc only, against a peer that answers every request, no request is written
\* before the reply to the previous one has been read, and none is
\* outstanding when rpc has returned or raised LsmError.
C7_RpcAlternation ==
    ~direct =>
        /\ pending <= 1
        /\ (cop = "none" /\ cres.op = "rpc" /\ cres.kind \in {"ok", "LsmError"}) => pending = 0

C7_Witness ==
    /\ ~direct /\ calls = 2 /\ cop = "none" /\ pending = 0
    /\ cres.op = "rpc" /\ cres.kind = "ok" /\ cres.frame.req.method = M_test

\* C8: while wait_for_it polls a job whose INPROGRESS replies are followed by
\* COMPLETE, it eventually returns the item of the COMPLETE reply, having
\* called job_free for the handle exactly once; no handle is freed twice.
C8_PollingTerminates ==
    /\ \A h \in 1..MaxOps :
           (ppc \in {"poll", "sleep"} /\ pjob = JobId(h) /\ jobs[h].fate = "COMPLETE")
           ~> (/\ ppc = "idle" /\ pout.job = JobId(h) /\ pout.wait = "returned"
               /\ pout.witem = jobs[h].item /\ jobs[h].frees = 1)
    /\ [](\A h \in 1..Len(jobs) : jobs[h].frees <= 1)

C8_Witness ==
    /\ pout.wait = "returned" /\ pout.job # None
    /\ jobs[pout.job[2]].total > 0
    /\ jobs[pout.job[2]].polls = jobs[pout.job[2]].total + 1
    /\ jobs[pout.job[2]].frees = 1
    /\ pout.witem = Vol

\* C9: when wait_for_it sees a job in status ERROR it raises, and it has
\* called job_free for the handle when the exception leaves the loop.
C9_ErrorStillFrees ==
    pout.wait = "raised" => jobs[pout.job[2]].frees = 1

\* C10: of every (job, value) pair, exactly one slot is set: in what a
\* deferred-capable operation returns, and in the pair present hands back.
C10_JobXorValue ==
    /\ pout.rc.t = "pair" => ((pout.rc.a = None) # (pout.rc.b = None))
    /\ (pout.kind = "returned" /\ JobPossible(pout.name) /\ AsyncCalls[pout.name] = "pair") =>
           /\ pout.val.t = "pair"
           /\ (pout.val.a = None) # (pout.val.b = None)

\* present hands back the pair after it has waited for a job
C10_Witness ==
    /\ pout.kind = "returned" /\ pout.name = "volume_create"
    /\ pout.wait = "returned" /\ pout.rc = Pair(JobId(1), None)
    /\ pout.val = Pair(None, Vol)

\* C11: the default implementation of every method of IStorageAreaNetwork,
\* INetworkAttachedStorage and INfs fails with LsmError(NO_SUPPORT) and
\* returns nothing, whatever its arguments.
C11_DefaultsFailNoSupport ==
    (icall.accepted /\ icall.op \in GatedOps /\ icall.op \notin impl) =>
        icall.out = Failed("NO_SUPPORT")

\* C12: an operation capabilities(s) reports as unsupported fails with
\* NO_SUPPORT on s, and one it reports as supported does not fail with
\* NO_SUPPORT.
C12_CapabilityPredicts ==
    (icall.accepted /\ icall.op \in GatedOps) =>
        IF icall.op \in Capabilities(caps, icall.sys)
        THEN ~(icall.out.kind = "LsmError" /\ icall.out.code = "NO_SUPPORT")
        ELSE icall.out.kind = "LsmError" /\ icall.out.code = "NO_SUPPORT"

\* C14: no call other than plugin_info is valid before startup has succeeded
\* or after shutdown; a call that is not valid does not run the method, and a
\* connection that was shut down stays so.
C14_Lifecycle ==
    /\ (icall.accepted /\ icall.op \notin {"plugin_info", "startup"}) => icall.conn = "started"
    /\ (icall.op = "startup" /\ icall.accepted) => icall.conn = "new"
    /\ ~icall.accepted => icall.out = NotRun
    /\ (icall.op \in GatedOps /\ icall.conn # "started") => ~icall.accepted
    /\ conn = "started" => icall.op # ""

\* a call that came after shutdown was turned away
C14_Witness ==
    /\ conn = "shutdown" /\ icall.op = "volume_create" /\ icall.conn = "shutdown"
    /\ ~icall.accepted

\* C13: an operation that cannot start a job never involves one: present
\* does not call wait_for_it for it, issues no job_status and no job_free
\* during the call, and returns what the operation returned, unchanged.
C13_PureQueriesNoJob ==
    /\ [](/\ (pout.name # "" /\ ~JobPossible(pout.name)) =>
                 /\ pout.job = None /\ pout.wait = "none"
                 /\ pout.kind = "returned" => pout.val = pout.rc
          /\ ppc \in {"poll", "sleep"} => JobPossible(pname))
    /\ [][(ops' = ops + 1 /\ ~JobPossible(pname')) =>
              /\ ppc' = "idle"
              /\ results'["job_status"] = results["job_status"]
              /\ results'["job_free"] = results["job_free"]
              /\ stats'["job_status"] = stats["job_status"]
              /\ stats'["job_free"] = stats["job_free"]
              /\ jobs' = jobs]_vars

\* pools returned its list after an earlier call had polled a job
C13_Witness ==
    /\ pout.kind = "returned" /\ pout.name = "pools" /\ pout.val = List(3)
    /\ stats["pools"].number_items = 3
    /\ Len(results["job_status"]) > 0

\* C16: __sendMsg of None or of an empty message fails with ValueError and
\* writes no byte to the socket.
C16_EmptyRejected ==
    (hOut.kind # "none" /\ (hIn.isNone \/ hIn.len = <<"0">>)) =>
        hOut.kind = "ValueError" /\ hOut.hdr = <<>>

\* the empty string was turned down
C16_Witness ==
    ~hIn.isNone /\ hIn.len = <<"0">> /\ hOut.kind = "ValueError" /\ hOut.hdr = <<>>

\* C18 as stated: every request carries the id 100, and the id of a reply is
\* never validated: read_resp and rpc return the result of a reply whatever
\* its id.
C18_IdNeverValidated ==
    /\ sres.kind \in {"ok", "done"} => sres.msg.m[K_id] = VInt(FIXED_ID)
    /\ (cres.got >= 0 /\ cres.frame.kind = "resp") =>
           cres.kind = "ok" /\ cres.val = cres.frame.val /\ cres.id = cres.frame.id

\* C18 as amended: every request carries the id 100; read_resp returns the
\* result and the id of a reply whatever the id; rpc returns the result of a
\* reply with the id 100 and fails its assertion on any other id.
C18_IdCheckedByRpcAlone ==
    /\ sres.kind \in {"ok", "done"} => sres.msg.m[K_id] = VInt(FIXED_ID)
    /\ (cres.op = "read_resp" /\ cres.got >= 0 /\ cres.frame.kind = "resp") =>
           cres.kind = "ok" /\ cres.val = cres.frame.val /\ cres.id = cres.frame.id
    /\ (cres.op = "rpc" /\ cres.got >= 0 /\ cres.frame.kind = "resp") =>
           IF cres.frame.id = VInt(FIXED_ID)
           THEN cres.kind = "ok" /\ cres.val = cres.frame.val
           ELSE cres.kind = "AssertionError" /\ cres.val = VNull

\* read_resp returned the result of a reply whose id is not 100, to a request
\* that went out with the id 100
C18_Witness ==
    /\ cres.op = "read_resp" /\ cres.kind = "ok" /\ cres.id # VInt(FIXED_ID)
    /\ cres.val = cres.frame.req.params
    /\ sres.kind = "ok" /\ sres.msg.m[K_id] = VInt(FIXED_ID)

\* C15 as stated: a second close has no further effect and does not fail, a
\* closed transport never becomes connected again, and every send or receive
\* called after close fails with ClosedTransportError.
C15_ClosedTransportError ==
    [][/\ cclosed => cclosed'
       /\ (cclosed /\ closes' = closes + 1) =>
              UNCHANGED <<cs, sc, csLog, scLog, cclosed, sclosed, cop, crd, cres, srd,
                          sfirst, sres, calls, drip, pending, direct>>
       /\ (cclosed /\ calls' = calls + 1) =>
              /\ cres'.kind = "ClosedTransportError"
              /\ cop' = "none" /\ cs' = cs /\ sc' = sc]_vars

\* C15 as amended: a second close has no further effect and does not fail, a
\* closed transport never becomes connected again, and every send_req, rpc
\* or read_resp called after close fails with the socket.error of the closed
\* socket, writing and reading nothing.
C15_ClosedStaysClosed ==
    [][/\ cclosed => cclosed'
       /\ (cclosed /\ closes' = closes + 1) =>
              UNCHANGED <<cs, sc, csLog, scLog, cclosed, sclosed, cop, crd, cres, srd,
                          sfirst, sres, calls, drip, pending, direct>>
       /\ (cclosed /\ calls' = calls + 1) =>
              /\ cres'.kind = "socket.error"
              /\ cres'.sent = 0 /\ cres'.got = -1
              /\ cop' = "none" /\ crd' = crd /\ cs' = cs /\ sc' = sc
              /\ pending' = pending]_vars

\* close was called twice and a read_resp after it has failed
C15_Witness ==
    /\ cclosed /\ closes = MaxCloses
    /\ cres.op = "read_resp" /\ cres.kind = "socket.error"

\* C17: the frames of two concurrent writers on one Transport never
\* interleave: the bytes of a frame are next to each other on the stream.
C17_NoInterleaving ==
    \A i, j, k \in 1..Len(wire) :
        (i < j /\ j < k /\ wire[i].w = wire[k].w) => wire[j].w = wire[i].w

\* C19: a fault of the transport during a receive (no byte from recv in the
\* middle of a frame, a header that is no length) ends the call at once: the
\* receive is over, nothing is sent, nothing more is received, and the
\* Transport does not close its socket.
C19_FaultEndsCall ==
    /\ [](/\ cop = "none" => crd = RdIdle
          /\ (sres.kind \in {"SocketEOF", "ValueError"} /\ sres.got = -1) => srd = RdIdle)
    /\ [][
          /\ (cop # "none" /\ cres'.kind \in {"SocketEOF", "ValueError"} /\ cres'.got = -1) =>
                 /\ cop' = "none" /\ crd' = RdIdle
                 /\ cclosed' = cclosed /\ closes' = closes
                 /\ cs' = cs /\ pending' = pending
                 /\ Len(sc) - Len(sc') <= RecvSize(crd.buf, crd.need)
          /\ (sres' # sres /\ sres'.kind \in {"SocketEOF", "ValueError"} /\ sres'.got = -1) =>
                 /\ srd' = RdIdle
                 /\ sc' = sc
                 /\ Len(cs) - Len(cs') <= RecvSize(srd.buf, srd.need)
                 /\ (sfirst => sclosed' = sclosed)
       ]_vars

\* read_resp raised ValueError on a header without digits: the byte behind
\* the header is still unread and the socket is open
C19_Witness ==
    /\ cres.op = "read_resp" /\ cres.kind = "ValueError" /\ cres.got = -1
    /\ cop = "none" /\ crd = RdIdle /\ ~cclosed
    /\ sc = <<"x">>

\* C20: after job_free(handle) has succeeded every later job_status on the
\* handle fails with not-found, also when the job was INPROGRESS when it was
\* freed; job_status on a handle that was never issued fails with not-found.
C20_FreedIsNotFound ==
    /\ (jres.op = "job_status" /\ (jres.wasFreed \/ ~jres.wasIssued)) => jres.out = NotFound
    /\ \A h \in Handles : (freedAs[h] # "" \/ h > issued) => RegStatus(registry, h) = NotFound

\* job_status failed on the handle of a job that was freed while in progress
C20_Witness ==
    /\ jres.op = "job_status" /\ jres.wasFreed /\ freedAs[jres.h] = "INPROGRESS"
    /\ jres.out = NotFound

\* C21: the status of a job only moves from INPROGRESS to COMPLETE or to
\* ERROR and never changes once it is COMPLETE or ERROR; while it is
\* INPROGRESS its percent_complete never decreases from one job_status reply
\* to the next, and percent_complete is 100 only when the status is COMPLETE.
C21_JobStateMachine ==
    /\ [](\A h \in 1..Len(jobs) :
              /\ JobStatusReply(jobs[h])[1] \in {"INPROGRESS", "COMPLETE", "ERROR"}
              /\ JobStatusReply(jobs[h])[2] \in 0..100
              /\ JobStatusReply(jobs[h])[2] = 100 <=> JobStatusReply(jobs[h])[1] = "COMPLETE")
    /\ [][\A h \in 1..Len(jobs) :
              /\ JobStatusReply(jobs[h])[1] # "INPROGRESS" =>
                     JobStatusReply(jobs'[h]) = JobStatusReply(jobs[h])
              /\ JobStatusReply(jobs'[h])[1] = "INPROGRESS" =>
                     /\ JobStatusReply(jobs[h])[1] = "INPROGRESS"
                     /\ JobStatusReply(jobs'[h])[2] >= JobStatusReply(jobs[h])[2]
         ]_vars

\* a job was seen INPROGRESS twice, with a higher percentage the second
\* time, and is COMPLETE at 100 now
C21_Witness ==
    \E h \in 1..Len(jobs) :
        /\ jobs[h].total = MaxInProgress /\ jobs[h].polls > jobs[h].total
        /\ JobStatusReply(jobs[h]) = <<"COMPLETE", 100, jobs[h].item>>
        /\ JobStatusReply([jobs[h] EXCEPT !.left = 1])[2] > JobStatusReply([jobs[h] EXCEPT !.left = 2])[2]

\* C22: wait_for_it frees a job only after it has seen a terminal status:
\* job_free is never issued when the last job_status reply was INPROGRESS, is
\* issued at most once for a handle, and comes after at least one job_status
\* call on the handle.
C22_FreeAfterTerminal ==
    /\ [](\A h \in 1..Len(jobs) :
              /\ jobs[h].frees <= 1
              /\ jobs[h].frees = 1 =>
                     /\ jobs[h].polls >= 1
                     /\ JobStatusReply(jobs[h])[1] = "COMPLETE"
              /\ Len(results["job_free"]) <= Len(results["job_status"]))
    /\ [][\A h \in 1..Len(jobs) :
              jobs'[h].frees # jobs[h].frees =>
                  /\ jobs[h].frees = 0
                  /\ JobStatusReply(jobs[h])[1] # "INPROGRESS"
                  /\ jobs'[h].polls = jobs[h].polls + 1
                  /\ ppc = "poll" /\ pjob = JobId(h)
         ]_vars

\* a job was freed after two INPROGRESS replies and the COMPLETE reply
C22_Witness ==
    \E h \in 1..Len(jobs) :
        /\ jobs[h].frees = 1 /\ jobs[h].total = MaxInProgress
        /\ jobs[h].polls = jobs[h].total + 1
        /\ Len(results["job_free"]) = 1

\* C23: wait_for_it neither returns nor raises on an INPROGRESS reply: it
\* sleeps and then calls job_status for the same handle again; it leaves the
\* loop only on a COMPLETE reply, on a reply that is neither INPROGRESS nor
\* COMPLETE, or when job_status itself raises.
C23_LoopsWhileInProgress ==
    [][/\ (ppc = "poll" /\ JobStatusReply(jobs[pjob[2]])[1] = "INPROGRESS"
               /\ ~JobStatusFails(jobs[pjob[2]]) /\ jobs' # jobs) =>
              /\ ppc' = "sleep" /\ pjob' = pjob /\ pitem' = pitem /\ pout' = pout
              /\ ended'[pname] = ended[pname]
       /\ ppc = "sleep" => (ppc' \in {"sleep", "poll"} /\ pjob' = pjob /\ jobs' = jobs)
       /\ (ppc \in {"poll", "sleep"} /\ ppc' = "idle") =>
              /\ ppc = "poll"
              /\ \/ JobStatusFails(jobs[pjob[2]]) /\ pout'.wait = "failed"
                 \/ JobStatusReply(jobs[pjob[2]])[1] = "COMPLETE" /\ pout'.wait = "returned"
                 \/ JobStatusReply(jobs[pjob[2]])[1] = "ERROR" /\ pout'.wait = "raised"
      ]_vars

\* wait_for_it is asleep after its second INPROGRESS reply
C23_Witness ==
    /\ ppc = "sleep" /\ pjob # None
    /\ jobs[pjob[2]].polls = MaxInProgress /\ jobs[pjob[2]].left = 0
    /\ pout.kind = "none"

C25_ReturnShape ==
    (JobPossible(pout.name) /\ pout.kind # "none"
         /\ ~(pout.kind = "raised" /\ pout.exc \in {"LsmError", "Exception"})) =>
        /\ pout.kind = "returned"
        /\ pout.val = IF AsyncCalls[pout.name] = "pair" THEN Pair(None, pout.witem)
                      ELSE Scalar(pout.witem)
        /\ pout.wait = "returned" => pout.witem = jobs[pout.job[2]].item
        /\ pout.wait = "direct" => pout.witem = pout.rc.b
        /\ \A h \in 1..Len(jobs) : JobId(h) \notin {pout.val.a, pout.val.b}

\* C26: for every operation name in async_calls, when the wrapped call has
\* succeeded and its job, if there is one, has reached COMPLETE, present
\* returns: the fix-up of the return value does not raise.
C26_FixUpNeverRaises ==
    (JobPossible(pout.name) /\ pout.kind # "none"
         /\ ~(pout.kind = "raised" /\ pout.exc \in {"LsmError", "Exception"})) =>
        pout.kind = "returned" /\ pout.exc = "none"

\* C27: a call of present for m appends exactly one entry to results[m],
\* rc=True when the wrapped call returned and rc=False when it raised; when
\* it raised, present raises the same exception and leaves stats[m] alone.
C27_OneResultPerCall ==
    /\ [](\A m \in ProxyNames :
              Len(results[m]) = ended[m].ok + ended[m].exc
                                + (IF ppc # "idle" /\ pname = m THEN 1 ELSE 0))
    /\ [][/\ ops' = ops + 1 =>
                 /\ results'[pname'] = Append(results[pname'], results'[pname'][Len(results'[pname'])])
                 /\ \A n \in ResultNames \ {pname'} : results'[n] = results[n]
                 /\ results'[pname'][Len(results'[pname'])] =
                        ~(pout'.kind = "raised" /\ pout'.exc = "LsmError" /\ pout'.wait = "none")
                 /\ ~results'[pname'][Len(results'[pname'])] =>
                        /\ ppc' = "idle" /\ pout'.kind = "raised" /\ pout'.exc = "LsmError"
                        /\ stats' = stats
          /\ ops' = ops => \A n \in ProxyNames : results'[n] = results[n]
         ]_vars

\* volume_create raised first and returned the second time
C27_Witness ==
    /\ results["volume_create"] = <<FALSE, TRUE>>
    /\ stats["volume_create"].count = 1
    /\ pout.kind = "returned" /\ pout.name = "volume_create"

\* C28: stats[m].count is the number of calls of present for m that
\* returned, and is at most the number of entries of results[m]; once no call
\* is running the two are equal exactly when no call for m ended with an
\* exception.
C28_CountsReturnedCalls ==
    \A m \in ResultNames :
        /\ stats[m].count = ended[m].ok
        /\ stats[m].count <= Len(results[m])
        /\ ppc = "idle" => (stats[m].count = Len(results[m]) <=> ended[m].exc = 0)

\* volume_create returned once and raised once while waiting for its job
C28_Witness ==
    /\ ppc = "idle" /\ pout.name = "volume_create" /\ pout.wait = "raised"
    /\ results["volume_create"] = <<TRUE, TRUE>>
    /\ stats["volume_create"].count = 1
    /\ ended["volume_create"] = [ok |-> 1, exc |-> 1]

C30_ServerAlwaysCloses ==
    srd = RdIdle => sclosed

\* C31: receiving one message consumes exactly HDR_LEN + N bytes of the
\* stream, N the value of its header: no recv asks for more bytes than
\* remain of the current frame, so what is buffered and what is still in
\* flight are at all times the frames of the requests written, whole and in
\* their order, and every request written behind another one is received as
\* it was sent.
C31_FramesStayIntact ==
    /\ [](srd.phase = "hdr" => srd.buf \o cs = ReqFrames(csLog))
    /\ [](srd.phase = "body" =>
              Header(Repr(srd.need)) \o srd.buf \o cs = ReqFrames(csLog))
    /\ [](sres.got >= 0 =>
              /\ sres.got = sres.n
              /\ sres.msg = ReqMsg(sres.frame.method, sres.frame.params))
    /\ [][/\ (srd.phase # "idle" /\ Len(cs') < Len(cs)) =>
                 /\ Len(cs) - Len(cs') <= srd.need - Len(srd.buf)
                 /\ cs' = SubSeq(cs, Len(cs) - Len(cs') + 1, Len(cs))
          /\ (srd.phase # "idle" /\ sres' # sres /\ sres'.got >= 0) =>
                 Len(srd.buf \o cs) - Len(cs') = (IF srd.phase = "hdr" THEN HDR_LEN ELSE 0) + sres'.n
         ]_vars

\* a request has been received while the frame of the next one was already
\* behind it on the stream, and that frame is still whole
C31_Witness ==
    /\ srd = RdStart /\ sres.kind = "ok" /\ sres.got = sres.n
    /\ csLog # <<>> /\ cs = ReqFrames(csLog)
    /\ pending = 2

\* C32: a received header whose value is 0 makes the receive fail with
\* ValueError without reading any byte of a body: the call ends at once and
\* what follows the header stays on the stream; hence no receive ever hands
\* an empty payload on, read_req never returns None and read_resp never
\* decodes an empty payload.
C32_ZeroHeaderRejected ==
    /\ [](sres.got # 0 /\ cres.got # 0)
    /\ [](sres.n = 0 /\ sres.kind # "none" => sres.kind \in {"ValueError", "SocketEOF"})
    /\ [][/\ (/\ srd.phase = "hdr" /\ Len(cs') < Len(cs)
              /\ Len(srd.buf) + Len(cs) - Len(cs') = HDR_LEN
              /\ PyInt(srd.buf \o SubSeq(cs, 1, Len(cs) - Len(cs'))) = 0) =>
                 /\ sres'.kind = "ValueError" /\ sres'.n = 0 /\ sres'.got = -1
                 /\ srd' = RdIdle
                 /\ sc' = sc
          /\ (/\ cop # "none" /\ crd.phase = "hdr" /\ Len(sc') < Len(sc)
              /\ Len(crd.buf) + Len(sc) - Len(sc') = HDR_LEN
              /\ PyInt(crd.buf \o SubSeq(sc, 1, Len(sc) - Len(sc'))) = 0) =>
                 /\ cres'.kind = "ValueError" /\ cres'.n = 0 /\ cres'.got = -1
                 /\ cop' = "none" /\ crd' = RdIdle
          /\ srd = RdIdle => Len(cs') >= Len(cs)
          /\ cop = "none" => Len(sc') >= Len(sc)
         ]_vars

\* both ends have received a header of zeros followed by one more byte: the
\* server's read_req and the client's read_resp raised ValueError and the
\* byte is still on each stream
C32_Witness ==
    /\ sres.kind = "ValueError" /\ sres.n = 0 /\ srd = RdIdle /\ cs = <<"x">>
    /\ cres.kind = "ValueError" /\ cres.n = 0 /\ cop = "none" /\ sc = <<"x">>

\* C33: cmd_exec returns the child's standard output, stripped, exactly when
\* the child's exit code is 0; for any other exit code it raises ExecError
\* with the joined command, the exit code, the captured stdout and the
\* captured stderr, and returns no value.
C33_ReturnsOnZeroOnly ==
    /\ xres.kind \in {"returned", "ExecError"} =>
           /\ xpc = "done"
           /\ xres.kind = "returned" <=> child.code = 0
    /\ xres.kind = "returned" =>
           xres.val = PyStrip(WrittenTo(child.writes, "stdout"))
    /\ xres.kind = "ExecError" =>
           /\ xres.val = <<>>
           /\ xres.cmd = Join(<<" ">>, xcmds)
           /\ xres.errno = child.code
           /\ xres.stdout = PyStrip(WrittenTo(child.writes, "stdout"))
           /\ xres.stderr = PyStrip(WrittenTo(child.writes, "stderr"))
    /\ (xpc = "done" /\ xres.kind # "OSError") => xres.kind \in {"returned", "ExecError"}

\* a child killed by a signal, after it wrote to both pipes, made cmd_exec
\* raise ExecError with both texts
C33_Witness ==
    /\ xres.kind = "ExecError" /\ xres.errno = -9
    /\ xres.stdout = <<"a">> /\ WrittenTo(child.writes, "stdout") = <<" ", "a">>
    /\ xres.stderr # <<>>
    /\ Len(xcmds) = 2

\* C34: cmd_exec eventually returns or raises for every child that
\* terminates once its output is drained, whatever it writes to stdout and
\* stderr and in whatever order, the pipes being of bounded capacity.
C34_AlwaysEnds == (xpc = "stdout") ~> (xpc = "done")

=============================================================================
